---- MODULE Spec2Model ----
\* A model of the luxnews search-and-crawl pipeline (src/src/luxnews):
\*   - the recency filter            (utils.is_within_last_days,
\*                                    BaseMediaScraper.filter_hits_by_date)
\*   - one keyword's search round    (BaseMediaScraper.search,
\*                                    LuxNewsRunner._search_with_selenium)
\*   - the cross-keyword merge       (LuxNewsRunner._collect_search_hits)
\*   - the run                       (LuxNewsRunner.run_job, _process_article)
\* Each part has its own specification over the shared variables; the
\* variables of the other parts stay at their initial values.
EXTENDS Integers, Sequences, FiniteSets, TLC

\* ---------------------------------------------------------------- bounds

\* Timestamps are integers counting units of DayUnits per day; 0..MaxTime.
MaxTime == 5
\* Longest hit list handed to filter_hits_by_date in SpecFilter.
MaxFilterHits == 2
\* Largest last_days tried in SpecFilter.
MaxLastDays == 2
\* Most hits all keyword rounds of one source return together in SpecCollect.
MaxCollectHits == 3
\* Most hits one keyword round returns in Spec.
MaxRunRoundHits == 2
\* Most link elements on one results page.
MaxPageHits == 2
\* Largest configured max_pages.
MaxPagesCfg == 2
\* Largest configured max_results.
MaxResultsCfg == 3
\* Most pages build_run_summary_pdf lays the summary out on.
MaxSummaryPages == 2
\* Longest text handed to normalize_text in SpecNormalize.
MaxTextLen == 3
\* Longest second text normalize_text is compared on in SpecNormalize.
MaxOtherLen == 2
\* Most date-bearing elements (meta tags, time elements) on an article page
\* in SpecDate.
MaxDateTags == 3

\* ------------------------------------------------------- program constants

\* timedelta(days=last_days): one day, in model time units.
DayUnits == 2
\* RunConfig.last_days default, used for the search round.
DefaultLastDays == 2
\* safe_filename(text, max_len=120)
DefaultMaxLen == 120
\* " ".join(visible_text.split())[:200]
SnippetLen == 200
\* for attempt in range(1, 4): the attempts fetch_search_page makes at most.
MaxAttempts == 3

\* -------------------------------------------------------------- encodings

\* published_at = None (SearchHit.published_at is Optional[datetime]).
NoDate == 0 - 1
\* detect_next_page returned None.
NoUrl == 0 - 1
\* detect_next_page was not called on the page (base.py:121-127 left the loop,
\* or the template has a {page} placeholder).
NotCalled == 0 - 2

ArticleUrls == {"u1", "u2"}
Times == 0..MaxTime
Dates == Times \cup {NoDate}

\* SearchHit restricted to the fields the search round reads.
SearchHit == [url : ArticleUrls, published_at : Dates]
\* The dates a hit of the search round carries: none, older than the window, recent.
RoundDates == {NoDate, 0, MaxTime}
RoundHit == [url : ArticleUrls, published_at : RoundDates]

SeqsUpTo(S, n) == UNION {[1..k -> S] : k \in 0..n}

VARIABLES
    \* --- recency filter (SpecFilter)
    f_pc,           \* "call" before filter_hits_by_date, "ret" after
    f_hits,         \* argument hits
    f_last_days,    \* argument last_days
    f_now,          \* datetime.now() read by the call
    f_filtered,     \* the returned list
    \* --- one keyword round (SpecRound)
    r_pc,           \* "entry", "loop", "done" (returned), "raised"
    r_cfg,          \* max_pages, max_results, paged template, browser path
    urls,           \* the list the for loop iterates (and appends to)
    pos,            \* index of the next element the for loop takes
    pages_seen,
    seen_urls,
    hits,
    fetched,        \* history: the page URLs fetched so far, in order
    contributed,    \* history: len(new_hits) of every page parsed, in order
    detected,       \* history: what detect_next_page returned on every page
                    \* parsed, NotCalled where it was not called
    stop_reason,    \* history: the statement that ended the for loop
    pace,           \* history: the page loads and the delays, in order
    web,            \* the content served for the URLs loaded so far, kept
                    \* (on) where both search paths run against one site
    first_run,      \* what search returned, once the same round is run
                    \* again through _search_with_selenium (SpecEquiv)
    \* --- the cross-keyword merge (SpecCollect)
    c_pc,           \* "loop" (for keyword in keywords), "done", "raised"
    c_keywords,     \* config.keywords
    c_k,            \* index of the next keyword
    hits_by_url,    \* the insertion-ordered dict, as a sequence of entries
    c_rounds,       \* history: the list each keyword round returned
    c_budget,       \* hits the remaining rounds may still return
    \* --- one article (SpecArticle)
    a_pc,           \* "call" before _process_article, "ret" after
    a_args,         \* the arguments of the call
    a_page,         \* history: what the browser did during the call
    a_record,       \* the returned ArticleRecord
    \* --- normalize_text (SpecNormalize)
    t_pc,           \* "call" before the calls, "ret" after
    t_text,         \* a text
    t_other,        \* a second text
    t_once,         \* normalize_text(t_text)
    t_twice,        \* normalize_text(normalize_text(t_text))
    t_other_once,   \* normalize_text(t_other)
    \* --- the date of an article (SpecDate)
    d_pc,           \* "call" before the date step of _process_article, "ret" after
    d_page,         \* the date-bearing elements of the article page
    d_search_date,  \* argument search_date
    d_detected,     \* what _extract_date returned
    d_published_at, \* published_at after core.py:297-303
    \* --- one search page over requests (SpecFetch)
    q_pc,           \* "try" inside the for loop of fetch_search_page,
                    \* "returned", "raised", "source_failed"
    q_url,          \* argument url
    q_attempt,      \* the loop variable
    q_outcomes,     \* history: how each requests.get ended, in order
    q_slept,        \* history: the arguments of time.sleep, in order
    q_html,         \* the returned text
    q_status,       \* the MediaStatus run_job records when the error reaches it
    \* --- the run (Spec)
    pc,             \* "start", "media", "article", "finally", "summary",
                    \* "merge", "json", "returned", "raised"
    config,         \* RunConfig: medias, keywords
    m,              \* index of the media the for loop is at
    driver,         \* "none", "open", "quit"
    records,
    media_statuses,
    article_pdf_paths,
    results,        \* the candidates of the current media, in dict order
    n,              \* index of the next candidate
    status,         \* the MediaStatus of the current media
    files,          \* the PDF files written: path and content
    pending,        \* the exception propagating through `finally`, or "none"
    raised_by,      \* the step whose exception left run_job, or "none"
    quits,          \* history: calls of driver.quit()
    used_after_quit,\* history: a driver operation ran on a released driver
    outcomes,       \* history: per finished media, how its search ended and
                    \* which records are its own
    expected,       \* history: candidates returned by the searches so far
    last_raise,     \* history: the step that raised in the last article
    trace,          \* history: the keyword rounds started, the article
                    \* pages navigated to and the delays after them, in order
    notified        \* history: the payloads handed to _notify, in order, each
                    \* with the length of trace at that moment

filterVars == <<f_pc, f_hits, f_last_days, f_now, f_filtered>>
roundVars == <<r_pc, r_cfg, urls, pos, pages_seen, seen_urls, hits, fetched,
               contributed, detected, stop_reason, pace, web, first_run>>
collectVars == <<c_pc, c_keywords, c_k, hits_by_url, c_rounds, c_budget>>
articleVars == <<a_pc, a_args, a_page, a_record>>
runVars == <<pc, config, m, driver, records, media_statuses, article_pdf_paths,
             results, n, status, files, pending, raised_by, quits,
             used_after_quit, outcomes, expected, last_raise, trace, notified>>
normVars == <<t_pc, t_text, t_other, t_once, t_twice, t_other_once>>
dateVars == <<d_pc, d_page, d_search_date, d_detected, d_published_at>>
fetchVars == <<q_pc, q_url, q_attempt, q_outcomes, q_slept, q_html, q_status>>
vars == <<filterVars, roundVars, collectVars, articleVars, normVars, dateVars, fetchVars,
          runVars>>

\* ---------------------------------------------------------- recency filter

\* Mutant: the cutoff instant itself counts as too old.
IsWithinLastDays_Strict(dt, last_days, now) ==
    LET cutoff == now - last_days * DayUnits
    IN dt > cutoff

\* utils.is_within_last_days
IsWithinLastDays(dt, last_days, now) ==
    LET cutoff == now - last_days * DayUnits
    IN dt >= cutoff

\* Mutant: a hit without a date is dropped like an old one.
RECURSIVE FilterHitsByDate_DropUndated(_, _, _)
FilterHitsByDate_DropUndated(hs, last_days, now) ==
    IF hs = <<>> THEN <<>>
    ELSE LET hit == Head(hs)
             rest == FilterHitsByDate_DropUndated(Tail(hs), last_days, now)
         IN IF hit.published_at # NoDate
               /\ hit.published_at >= now - last_days * DayUnits
            THEN <<hit>> \o rest
            ELSE rest

\* BaseMediaScraper.filter_hits_by_date: the loop over hits, in order.
RECURSIVE FilterHitsByDate(_, _, _)
FilterHitsByDate(hs, last_days, now) ==
    IF hs = <<>> THEN <<>>
    ELSE LET hit == Head(hs)
             rest == FilterHitsByDate(Tail(hs), last_days, now)
         IN IF hit.published_at = NoDate THEN <<hit>> \o rest
            ELSE IF IsWithinLastDays(hit.published_at, last_days, now)
                 THEN <<hit>> \o rest
                 ELSE rest

FilterInit ==
    /\ f_pc = "call"
    /\ f_hits \in SeqsUpTo(SearchHit, MaxFilterHits)
    /\ f_last_days \in (0 - 1)..MaxLastDays
    /\ f_now \in {MaxTime - 1, MaxTime}
    /\ f_filtered = <<>>

FilterCall ==
    /\ f_pc = "call"
    /\ f_filtered' = FilterHitsByDate(f_hits, f_last_days, f_now)
    /\ f_pc' = "ret"
    /\ UNCHANGED <<f_hits, f_last_days, f_now>>

\* ------------------------------------------------------- one keyword round

\* A results page as the parser sees it: the hits parse_search_results
\* returns (one per link element, in document order) and the URL
\* detect_next_page returns.
PageUrls == 0..(MaxPagesCfg + 1)
Pages == [page_hits : SeqsUpTo(RoundHit, MaxPageHits),
          next_url : PageUrls \cup {NoUrl}]

RoundNow == MaxTime

\* The pages a site serves where both search paths are run against it: up to
\* MaxPageHits links, dated inside the window or not at all, or one link
\* dated before the window.
EquivPages ==
    {p \in Pages :
        \/ \A i \in 1..Len(p.page_hits) : p.page_hits[i].published_at = NoDate
        \/ Len(p.page_hits) = 1 /\ p.page_hits[1].published_at = 0}

\* What a load of url can return: any page, or, where the content of the
\* site is kept, what the URL returned before.
PageChoices(w, url) ==
    IF ~w.on THEN Pages
    ELSE IF \E e \in w.pages : e[1] = url
         THEN {e[2] : e \in {x \in w.pages : x[1] = url}}
         ELSE EquivPages
Remember(w, url, page) ==
    IF w.on THEN [w EXCEPT !.pages = @ \cup {<<url, page>>}] ELSE w

\* BaseMediaScraper.build_search_urls: page numbers 1..max_pages stand for
\* the formatted URLs of a {page} template, 0 for the single URL otherwise.
BuildSearchUrls(cfg) ==
    IF cfg.paged THEN [p \in 1..cfg.max_pages |-> p] ELSE <<0>>

RoundInit ==
    /\ r_pc = "entry"
    /\ r_cfg \in [max_pages : 0..MaxPagesCfg, max_results : 0..MaxResultsCfg,
                  paged : BOOLEAN, selenium : BOOLEAN]
    /\ urls = <<>>
    /\ pos = 1
    /\ pages_seen = {}
    /\ seen_urls = {}
    /\ hits = <<>>
    /\ fetched = <<>>
    /\ contributed = <<>>
    /\ detected = <<>>
    /\ stop_reason = "none"
    /\ pace = <<>>
    /\ web = [on |-> FALSE, pages |-> {}]
    /\ first_run = <<>>

\* Both paths against one site: search runs first.
EquivInit ==
    /\ r_pc = "entry"
    /\ r_cfg \in [max_pages : 0..MaxPagesCfg, max_results : 0..MaxResultsCfg,
                  paged : BOOLEAN, selenium : {FALSE}]
    /\ urls = <<>>
    /\ pos = 1
    /\ pages_seen = {}
    /\ seen_urls = {}
    /\ hits = <<>>
    /\ fetched = <<>>
    /\ contributed = <<>>
    /\ detected = <<>>
    /\ stop_reason = "none"
    /\ pace = <<>>
    /\ web = [on |-> TRUE, pages |-> {}]
    /\ first_run = <<>>

RoundIdle ==
    /\ r_pc = "idle"
    /\ r_cfg = [max_pages |-> 0, max_results |-> 0, paged |-> FALSE, selenium |-> FALSE]
    /\ urls = <<>>
    /\ pos = 1
    /\ pages_seen = {}
    /\ seen_urls = {}
    /\ hits = <<>>
    /\ fetched = <<>>
    /\ contributed = <<>>
    /\ detected = <<>>
    /\ stop_reason = "none"
    /\ pace = <<>>
    /\ web = [on |-> FALSE, pages |-> {}]
    /\ first_run = <<>>

FilterIdle ==
    /\ f_pc = "idle"
    /\ f_hits = <<>>
    /\ f_last_days = 0
    /\ f_now = 0
    /\ f_filtered = <<>>

\* search / _search_with_selenium, up to the for loop.
SearchEntry ==
    /\ r_pc = "entry"
    /\ urls' = BuildSearchUrls(r_cfg)
    /\ r_pc' = "loop"
    /\ UNCHANGED <<r_cfg, pos, pages_seen, seen_urls, hits, fetched, contributed,
                   detected, stop_reason, pace, web, first_run>>

\* base.py:116  new_hits = [hit for hit in page_hits if hit.url not in seen_urls]
NewHits(page_hits, seen) == SelectSeq(page_hits, LAMBDA h : h.url \notin seen)

\* Mutant: the page budget of a template without {page} is never checked.
MaxPagesReached_Never(seen_pages, max_pages) == FALSE

\* base.py:126  len(pages_seen) >= self.config.max_pages
MaxPagesReached(seen_pages, max_pages) == Cardinality(seen_pages) >= max_pages

HitUrls(hs) == {hs[i].url : i \in 1..Len(hs)}

\* Mutant: a page without a new hit does not end the round.
NoNewHits_Never(new_hits) == FALSE

\* base.py:121  if not new_hits: break
NoNewHits(new_hits) == new_hits = <<>>

\* Mutant: max_results never ends the round.
MaxResultsReached_Never(all_hits, max_results) == FALSE

\* base.py:123  if len(hits) >= self.config.max_results: break
MaxResultsReached(all_hits, max_results) == Len(all_hits) >= max_results

\* Mutant: the delay is skipped.
RateLimit_None(done) == done

\* base.py:132, core.py:265, core.py:117  time.sleep(rate_limit_seconds) at
\* the end of an iteration that was not left by break or continue.
RateLimit(done) == Append(done, "sleep")

\* Mutant: only a missing next link ends the round.
NextPageUnusable_AbsentOnly(next_url, seen_pages) == next_url = NoUrl

\* base.py:129  if not next_url or next_url in pages_seen: break
NextPageUnusable(next_url, seen_pages) == next_url = NoUrl \/ next_url \in seen_pages

\* One iteration of the for loop of BaseMediaScraper.search.
SearchPage ==
    /\ r_pc = "loop"
    /\ ~r_cfg.selenium
    /\ pos <= Len(urls)
    /\ LET url == urls[pos] IN
       IF url \in pages_seen
       THEN /\ pos' = pos + 1
            /\ UNCHANGED <<r_pc, urls, pages_seen, seen_urls, hits, fetched, contributed,
                           detected, stop_reason, pace, web>>
       ELSE
         /\ pages_seen' = pages_seen \cup {url}
         /\ fetched' = Append(fetched, url)
         /\ \/ \* fetch_search_page raises RuntimeError after its retries
               /\ r_pc' = "raised"
               /\ pace' = Append(pace, "page")
               /\ UNCHANGED <<urls, pos, seen_urls, hits, contributed, detected,
                              stop_reason, web>>
            \/ \E page \in PageChoices(web, url) :
                 LET page_hits == FilterHitsByDate(page.page_hits, DefaultLastDays, RoundNow)
                     new_hits == NewHits(page_hits, seen_urls)
                     hits1 == hits \o new_hits
                 IN /\ web' = Remember(web, url, page)
                    /\ seen_urls' = seen_urls \cup HitUrls(new_hits)
                    /\ hits' = hits1
                    /\ contributed' = Append(contributed, Len(new_hits))
                    /\ detected' = Append(detected,
                                          IF \/ NoNewHits(new_hits)
                                             \/ MaxResultsReached(hits1, r_cfg.max_results)
                                             \/ r_cfg.paged
                                             \/ MaxPagesReached(pages_seen', r_cfg.max_pages)
                                          THEN NotCalled ELSE page.next_url)
                    /\ IF NoNewHits(new_hits)
                       THEN /\ r_pc' = "done"
                            /\ stop_reason' = "no_new_hits"
                            /\ pace' = Append(pace, "page")
                            /\ UNCHANGED <<urls, pos>>
                       ELSE IF MaxResultsReached(hits1, r_cfg.max_results)
                       THEN /\ r_pc' = "done"
                            /\ stop_reason' = "max_results"
                            /\ pace' = Append(pace, "page")
                            /\ UNCHANGED <<urls, pos>>
                       ELSE IF ~r_cfg.paged
                       THEN IF MaxPagesReached(pages_seen', r_cfg.max_pages)
                            THEN /\ r_pc' = "done"
                                 /\ stop_reason' = "max_pages"
                                 /\ pace' = Append(pace, "page")
                                 /\ UNCHANGED <<urls, pos>>
                            ELSE IF NextPageUnusable(page.next_url, pages_seen')
                            THEN /\ r_pc' = "done"
                                 /\ stop_reason' = "no_next_page"
                                 /\ pace' = Append(pace, "page")
                                 /\ UNCHANGED <<urls, pos>>
                            ELSE /\ urls' = Append(urls, page.next_url)
                                 /\ pos' = pos + 1
                                 /\ r_pc' = "loop"
                                 /\ pace' = pace \o RateLimit(<<"page">>)
                                 /\ UNCHANGED stop_reason
                       ELSE /\ pos' = pos + 1
                            /\ r_pc' = "loop"
                            /\ pace' = pace \o RateLimit(<<"page">>)
                            /\ UNCHANGED <<urls, stop_reason>>
    /\ UNCHANGED <<r_cfg, first_run>>

\* core.py:246
SeleniumNewHits(page_hits, seen) == SelectSeq(page_hits, LAMBDA h : h.url \notin seen)

\* core.py:259
SeleniumMaxPagesReached(seen_pages, max_pages) == Cardinality(seen_pages) >= max_pages

\* core.py:251  if not new_hits: break
SeleniumNoNewHits(new_hits) == new_hits = <<>>

\* Mutant: the browser path stops only above max_results.
SeleniumMaxResultsReached_Above(all_hits, max_results) == Len(all_hits) > max_results

\* core.py:256  if len(hits) >= self.config.max_results: break
SeleniumMaxResultsReached(all_hits, max_results) == Len(all_hits) >= max_results

\* core.py:262  if not next_url or next_url in pages_seen: break
SeleniumNextPageUnusable(next_url, seen_pages) ==
    next_url = NoUrl \/ next_url \in seen_pages

\* One iteration of the for loop of LuxNewsRunner._search_with_selenium.
\* The optional pause (core.py:253) waits for the operator and changes no state.
SeleniumSearchPage ==
    /\ r_pc = "loop"
    /\ r_cfg.selenium
    /\ pos <= Len(urls)
    /\ LET url == urls[pos] IN
       IF url \in pages_seen
       THEN /\ pos' = pos + 1
            /\ UNCHANGED <<r_pc, urls, pages_seen, seen_urls, hits, fetched, contributed,
                           detected, stop_reason, pace, web>>
       ELSE
         /\ pages_seen' = pages_seen \cup {url}
         /\ fetched' = Append(fetched, url)
         /\ \/ \* driver.get, wait_for_ready or dump_page raises
               /\ r_pc' = "raised"
               /\ pace' = Append(pace, "page")
               /\ UNCHANGED <<urls, pos, seen_urls, hits, contributed, detected,
                              stop_reason, web>>
            \/ \E page \in PageChoices(web, url) :
                 LET page_hits == FilterHitsByDate(page.page_hits, DefaultLastDays, RoundNow)
                     new_hits == SeleniumNewHits(page_hits, seen_urls)
                     hits1 == hits \o new_hits
                 IN /\ web' = Remember(web, url, page)
                    /\ seen_urls' = seen_urls \cup HitUrls(new_hits)
                    /\ hits' = hits1
                    /\ contributed' = Append(contributed, Len(new_hits))
                    /\ detected' = Append(detected,
                                          IF \/ SeleniumNoNewHits(new_hits)
                                             \/ SeleniumMaxResultsReached(hits1, r_cfg.max_results)
                                             \/ r_cfg.paged
                                             \/ SeleniumMaxPagesReached(pages_seen', r_cfg.max_pages)
                                          THEN NotCalled ELSE page.next_url)
                    /\ IF SeleniumNoNewHits(new_hits)
                       THEN /\ r_pc' = "done"
                            /\ stop_reason' = "no_new_hits"
                            /\ pace' = Append(pace, "page")
                            /\ UNCHANGED <<urls, pos>>
                       ELSE IF SeleniumMaxResultsReached(hits1, r_cfg.max_results)
                       THEN /\ r_pc' = "done"
                            /\ stop_reason' = "max_results"
                            /\ pace' = Append(pace, "page")
                            /\ UNCHANGED <<urls, pos>>
                       ELSE IF ~r_cfg.paged
                       THEN IF SeleniumMaxPagesReached(pages_seen', r_cfg.max_pages)
                            THEN /\ r_pc' = "done"
                                 /\ stop_reason' = "max_pages"
                                 /\ pace' = Append(pace, "page")
                                 /\ UNCHANGED <<urls, pos>>
                            ELSE IF SeleniumNextPageUnusable(page.next_url, pages_seen')
                            THEN /\ r_pc' = "done"
                                 /\ stop_reason' = "no_next_page"
                                 /\ pace' = Append(pace, "page")
                                 /\ UNCHANGED <<urls, pos>>
                            ELSE /\ urls' = Append(urls, page.next_url)
                                 /\ pos' = pos + 1
                                 /\ r_pc' = "loop"
                                 /\ pace' = pace \o RateLimit(<<"page">>)
                                 /\ UNCHANGED stop_reason
                       ELSE /\ pos' = pos + 1
                            /\ r_pc' = "loop"
                            /\ pace' = pace \o RateLimit(<<"page">>)
                            /\ UNCHANGED <<urls, stop_reason>>
    /\ UNCHANGED <<r_cfg, first_run>>

\* The for loop of either path runs out of URLs: return hits.
SearchExhausted ==
    /\ r_pc = "loop"
    /\ pos > Len(urls)
    /\ r_pc' = "done"
    /\ stop_reason' = "exhausted"
    /\ UNCHANGED <<r_cfg, urls, pos, pages_seen, seen_urls, hits, fetched, contributed,
                   detected, pace, web, first_run>>

\* The round has returned and its caller loads its next page: the first page
\* of the next keyword's round (core.py:185-191, then base.py:113 or
\* core.py:231) or, after the last keyword, the first candidate's article
\* (core.py:192-212, 97-98, 289). No statement on either way sleeps.
AfterRound ==
    /\ r_pc = "done"
    /\ \E next \in {"next_page", "article"} : pace' = Append(pace, next)
    /\ r_pc' = "left"
    /\ UNCHANGED <<r_cfg, urls, pos, pages_seen, seen_urls, hits, fetched, contributed,
                   detected, stop_reason, web, first_run>>

\* The same round again through the browser: run_job calls
\* _search_with_selenium instead of scraper.search when the driver is set
\* (core.py:185-191), with the same scraper, keyword and configuration, and
\* the site serves what it served before.
SearchAgainWithSelenium ==
    /\ r_pc = "done"
    /\ web.on
    /\ first_run = <<>>
    /\ first_run' = <<[fetched |-> fetched, hits |-> hits, stop_reason |-> stop_reason]>>
    /\ r_cfg' = [r_cfg EXCEPT !.selenium = TRUE]
    /\ r_pc' = "entry"
    /\ urls' = <<>>
    /\ pos' = 1
    /\ pages_seen' = {}
    /\ seen_urls' = {}
    /\ hits' = <<>>
    /\ fetched' = <<>>
    /\ contributed' = <<>>
    /\ detected' = <<>>
    /\ stop_reason' = "none"
    /\ pace' = <<>>
    /\ UNCHANGED web


\* ------------------------------------------------- the cross-keyword merge

\* A str is a sequence of characters; None and "" are both <<>> where the
\* code only tests truthiness (hit.snippet, hit.title, payload["title"]).
NoStr == <<>>

KeywordA == <<"a", "b">>
KeywordB == <<"B", "c">>
KeywordLists == {<<KeywordA>>, <<KeywordA, KeywordB>>, <<KeywordB, KeywordA>>,
                 <<KeywordA, KeywordA>>}

Snippets == {NoStr, <<"s">>, <<"t">>}
SearchTitles == {NoStr, <<"T">>}

\* SearchHit as _collect_search_hits reads it (every hit of SpecCollect is undated).
CollectHit == [url : ArticleUrls, title : SearchTitles,
               published_at : {NoDate}, snippet : Snippets]

\* Mutant: nothing is removed.
UniquePreserveOrder_KeepAll(items) == items

\* utils.unique_preserve_order
RECURSIVE UniqueFrom(_, _)
UniqueFrom(items, seen) ==
    IF items = <<>> THEN <<>>
    ELSE IF Head(items) \in seen THEN UniqueFrom(Tail(items), seen)
    ELSE <<Head(items)>> \o UniqueFrom(Tail(items), seen \cup {Head(items)})
UniquePreserveOrder(items) == UniqueFrom(items, {})

\* Position of url among the dict's keys, 0 when absent.
KeyIndex(d, url) ==
    IF \E i \in 1..Len(d) : d[i].url = url
    THEN CHOOSE i \in 1..Len(d) : d[i].url = url
    ELSE 0

\* Mutant: the payload's keyword set is overwritten, not extended.
AddKeyword_Overwrite(kws, keyword) == {keyword}

\* Mutant: only the keyword that created the entry is recorded.
AddKeyword_FirstOnly(kws, keyword) == IF kws = {} THEN {keyword} ELSE kws

\* core.py:202  payload["keywords"].add(keyword)
AddKeyword(kws, keyword) == kws \cup {keyword}

\* core.py:193-208: the body of `for hit in keyword_hits`.
MergeHit(d, hit, keyword) ==
    LET d1 == IF KeyIndex(d, hit.url) = 0
              THEN Append(d, [url |-> hit.url, keywords |-> {}, snippets |-> <<>>,
                              title |-> hit.title, published_at |-> hit.published_at])
              ELSE d
        i == KeyIndex(d1, hit.url)
        payload == d1[i]
    IN [d1 EXCEPT ![i] =
          [payload EXCEPT
             !.keywords = AddKeyword(payload.keywords, keyword),
             !.snippets = IF hit.snippet # NoStr
                          THEN Append(payload.snippets, hit.snippet)
                          ELSE payload.snippets,
             !.title = IF hit.title # NoStr /\ payload.title = NoStr
                       THEN hit.title ELSE payload.title,
             !.published_at = IF hit.published_at # NoDate /\ payload.published_at = NoDate
                              THEN hit.published_at ELSE payload.published_at]]

\* core.py:192: `for hit in keyword_hits`.
RECURSIVE MergeKeywordHits(_, _, _)
MergeKeywordHits(d, keyword_hits, keyword) ==
    IF keyword_hits = <<>> THEN d
    ELSE MergeKeywordHits(MergeHit(d, Head(keyword_hits), keyword),
                          Tail(keyword_hits), keyword)

\* core.py:210-211
DedupSnippets(d) ==
    [i \in 1..Len(d) |-> [d[i] EXCEPT !.snippets = UniquePreserveOrder(d[i].snippets)]]

CollectInit ==
    /\ c_pc = "loop"
    /\ c_keywords \in KeywordLists
    /\ c_k = 1
    /\ hits_by_url = <<>>
    /\ c_rounds = <<>>
    /\ c_budget = MaxCollectHits

CollectIdle ==
    /\ c_pc = "idle"
    /\ c_keywords = <<>>
    /\ c_k = 1
    /\ hits_by_url = <<>>
    /\ c_rounds = <<>>
    /\ c_budget = 0

\* One iteration of `for keyword in self.config.keywords`: the round returns
\* a list of hits, which is merged.
CollectKeyword ==
    /\ c_pc = "loop"
    /\ c_k <= Len(c_keywords)
    /\ \E keyword_hits \in SeqsUpTo(CollectHit, c_budget) :
         /\ hits_by_url' = MergeKeywordHits(hits_by_url, keyword_hits, c_keywords[c_k])
         /\ c_rounds' = Append(c_rounds, keyword_hits)
         /\ c_budget' = c_budget - Len(keyword_hits)
    /\ c_k' = c_k + 1
    /\ UNCHANGED <<c_pc, c_keywords>>

\* The round of the current keyword raises: _collect_search_hits propagates it.
CollectRaise ==
    /\ c_pc = "loop"
    /\ c_k <= Len(c_keywords)
    /\ c_pc' = "raised"
    /\ UNCHANGED <<c_keywords, c_k, hits_by_url, c_rounds, c_budget>>

\* After the last keyword: deduplicate the snippets and return.
CollectReturn ==
    /\ c_pc = "loop"
    /\ c_k > Len(c_keywords)
    /\ hits_by_url' = DedupSnippets(hits_by_url)
    /\ c_pc' = "done"
    /\ UNCHANGED <<c_keywords, c_k, c_rounds, c_budget>>

\* ------------------------------------------------------------------ strings

\* Characters: "a'" is a letter with a precomposed accent, "'" the combining
\* mark NFKD splits off it, " " and "TAB" are whitespace; "SIGMA" is the
\* Greek capital sigma, "sigma" and "fsigma" its two small forms.
Whitespace == {" ", "TAB"}

RECURSIVE Flatten(_)
Flatten(ss) == IF ss = <<>> THEN <<>> ELSE Head(ss) \o Flatten(Tail(ss))

\* unicodedata.normalize("NFKD", ch)
Decompose(ch) ==
    IF ch = "a'" THEN <<"a", "'">>
    ELSE IF ch = "A'" THEN <<"A", "'">>
    ELSE <<ch>>

\* unicodedata.combining(ch) != 0
Combining(ch) == ch = "'"

\* str.lower, per character
Lower(ch) ==
    IF ch = "A" THEN "a"
    ELSE IF ch = "B" THEN "b"
    ELSE IF ch = "T" THEN "t"
    ELSE IF ch = "A'" THEN "a'"
    ELSE ch

\* Characters with the Unicode property Cased.
Cased(ch) ==
    ch \in {"a", "b", "c", "s", "t", "u", "x", "A", "B", "T", "a'", "A'",
            "SIGMA", "sigma", "fsigma"}

\* str.lower on a whole string: a capital sigma that follows a cased
\* character and is followed by none becomes the final small sigma.
LowerText(text) ==
    [i \in 1..Len(text) |->
        IF text[i] = "SIGMA"
        THEN IF /\ i > 1
                /\ Cased(text[i - 1])
                /\ (i = Len(text) \/ ~Cased(text[i + 1]))
             THEN "fsigma" ELSE "sigma"
        ELSE Lower(text[i])]

\* str.strip() for whitespace
RECURSIVE LStrip(_, _)
LStrip(text, drop) ==
    IF text # <<>> /\ Head(text) \in drop THEN LStrip(Tail(text), drop) ELSE text
RECURSIVE RStrip(_, _)
RStrip(text, drop) ==
    IF text # <<>> /\ text[Len(text)] \in drop
    THEN RStrip(SubSeq(text, 1, Len(text) - 1), drop) ELSE text
Strip(text, drop) == RStrip(LStrip(text, drop), drop)

\* _WHITESPACE_RE.sub(" ", text): every run of whitespace becomes one space.
RECURSIVE CollapseWhitespace(_)
CollapseWhitespace(text) ==
    IF text = <<>> THEN <<>>
    ELSE IF Head(text) \in Whitespace
         THEN <<" ">> \o CollapseWhitespace(LStrip(text, Whitespace))
         ELSE <<Head(text)>> \o CollapseWhitespace(Tail(text))

\* utils.normalize_text
NormalizeText(text) ==
    LET nfkd == Flatten([i \in 1..Len(text) |-> Decompose(text[i])])
        marks_removed == SelectSeq(nfkd, LAMBDA ch : ~Combining(ch))
        lowered == LowerText(marks_removed)
    IN Strip(CollapseWhitespace(lowered), Whitespace)

\* The characters re.sub(r"[^a-z0-9\-_. ]", "", ...) keeps.
FilenameChars == {"a", "b", "c", "s", "t", "u", "x", "1", "2", "-", "_", ".", " "}

\* utils.safe_filename
SafeFilename(text, max_len) ==
    LET normalized == NormalizeText(text)
        kept == SelectSeq(normalized, LAMBDA ch : ch \in FilenameChars)
        dashed == [i \in 1..Len(kept) |-> IF kept[i] = " " THEN "-" ELSE kept[i]]
        stripped == Strip(dashed, {"-"})
        named == IF stripped = <<>> THEN <<"i", "t", "e", "m">> ELSE stripped
    IN SubSeq(named, 1, IF Len(named) < max_len THEN Len(named) ELSE max_len)

\* needle in hay (str containment)
IsSubstring(needle, hay) ==
    \E i \in 0..(Len(hay) - Len(needle)) : SubSeq(hay, i + 1, i + Len(needle)) = needle

\* ------------------------------------------------------------ normalize_text

NormChars == {"a", "A", "a'", "'", " ", "TAB", "SIGMA", "sigma"}

NormInit ==
    /\ t_pc = "call"
    /\ t_text \in SeqsUpTo(NormChars, MaxTextLen)
    /\ t_other \in SeqsUpTo(NormChars, MaxOtherLen)
    /\ t_once = <<>>
    /\ t_twice = <<>>
    /\ t_other_once = <<>>

NormIdle ==
    /\ t_pc = "idle"
    /\ t_text = <<>>
    /\ t_other = <<>>
    /\ t_once = <<>>
    /\ t_twice = <<>>
    /\ t_other_once = <<>>

\* normalize_text applied to the first text, to its own result, and to the
\* second text.
NormalizeCall ==
    /\ t_pc = "call"
    /\ t_once' = NormalizeText(t_text)
    /\ t_twice' = NormalizeText(NormalizeText(t_text))
    /\ t_other_once' = NormalizeText(t_other)
    /\ t_pc' = "ret"
    /\ UNCHANGED <<t_text, t_other>>

\* ---------------------------------------------------------------- one article

MediaIds == {"rtl.lu", "today.rtl.lu"}

\* The text of an article URL, as safe_filename(title or url) reads it.
UrlChars(url) == IF url = "u1" THEN <<"u", "/", "1">> ELSE <<"u", "/", "2">>

\* per_article_pdf_path = None
NoPath == <<>>
\* str(pdf_dir / f"{media_id}_{safe_title}.pdf"), as the pair it is built from.
PdfPath(media_id, safe_title) == <<media_id, safe_title>>

\* What the browser does while one article is processed:
\*   raise_at       the first step that raises an Exception, or "none":
\*                  "nav"   driver.get / wait_for_ready (core.py:289-291)
\*                  "date"  driver.page_source / _extract_date (core.py:297)
\*                  "text"  dump_page / extract_visible_text (core.py:305-317)
\*                  "print" print_to_pdf (core.py:346)
\*   detected_title extract_title(driver), NoStr for None
\*   detected_date  _extract_date(page_source), NoDate for None
\*   visible_text   extract_visible_text(driver)
\*   pdf_data       what Page.printToPDF returns: a document, or no data
\*   capture        _format_error_artifacts: everything written, screenshot
\*                  refused (WebDriverException), or the capture itself failed
RaiseSteps == {"nav", "date", "text", "print"}
DetectedTitles == {NoStr, <<"A", "b">>, <<"!">>}
VisibleTexts == {NoStr, <<"x">>, <<" ", "A", "b", "TAB", " ", "x">>, <<"a'", "b", "c">>}
ArticlePages == [raise_at : RaiseSteps \cup {"none"},
                 detected_title : DetectedTitles,
                 detected_date : {NoDate, MaxTime},
                 visible_text : VisibleTexts,
                 pdf_data : {"pdf", "empty"},
                 capture : {"full", "no_screenshot", "failed"}]

\* Mutant: a keyword matches only as a whole word of the text.
MatchedKeywords_WholeWord(keywords, normalized_text) ==
    SelectSeq(keywords,
              LAMBDA kw :
                LET needle == NormalizeText(kw)
                IN \E i \in 0..(Len(normalized_text) - Len(needle)) :
                     /\ SubSeq(normalized_text, i + 1, i + Len(needle)) = needle
                     /\ (i = 0 \/ normalized_text[i] = " ")
                     /\ (i + Len(needle) = Len(normalized_text)
                           \/ normalized_text[i + Len(needle) + 1] = " "))

\* core.py:319-321  [kw for kw in keywords if normalize_text(kw) in normalized_text]
MatchedKeywords(keywords, normalized_text) ==
    SelectSeq(keywords, LAMBDA kw : IsSubstring(NormalizeText(kw), normalized_text))

\* core.py:323-326: the fallback snippet cut from the visible text.
FallbackSnippets(snippets, visible_text) ==
    IF snippets = <<>> /\ visible_text # <<>>
    THEN LET joined == Strip(CollapseWhitespace(visible_text), Whitespace)
             snippet_text == SubSeq(joined, 1,
                                    IF Len(joined) < SnippetLen THEN Len(joined) ELSE SnippetLen)
         IN IF snippet_text # <<>> THEN <<snippet_text>> ELSE snippets
    ELSE snippets

\* LuxNewsRunner._format_error_artifacts
FormatErrorArtifacts(url, capture) ==
    IF capture = "failed" THEN << <<"Artifact capture failed">> >>
    ELSE IF capture = "no_screenshot" THEN << <<"URL", url>>, <<"HTML">> >>
    ELSE << <<"URL", url>>, <<"Screenshot">>, <<"HTML">> >>

\* The message of the exception a step raises.
ExcMessage(step) == <<"exc", step>>

\* Mutant: a failed capture reports itself in place of the original error.
FailedErrors_CaptureReplaces(message, artifacts) ==
    IF artifacts = << <<"Artifact capture failed">> >> THEN artifacts
    ELSE <<message>> \o artifacts

\* core.py:366-367  errors.append(f"{exc}"); errors.extend(artifacts)
FailedErrors(message, artifacts) == <<message>> \o artifacts

\* core.py:413, 428: the try block of _format_error_artifacts holds every
\* statement that can fail, and `except Exception` catches what the inner
\* `except WebDriverException` (core.py:422) does not.
CaptureOutcomes == {"full", "no_screenshot", "failed"}
CaptureContained(capture) == capture \in CaptureOutcomes

\* Mutant: the `if not matched_keywords` return is missing, so an article
\* without a match is printed and reported like a matching one.
ArticleStatus_NoSkip(raise_at, matched_keywords) ==
    IF raise_at \in {"nav", "date", "text"} THEN "failed"
    ELSE IF raise_at = "print" THEN "failed"
    ELSE "ok"

\* The return statement _process_article reaches (core.py:328, 349, 363).
ArticleStatus(raise_at, matched_keywords) ==
    IF raise_at \in {"nav", "date", "text"} THEN "failed"
    ELSE IF matched_keywords = <<>> THEN "skipped"
    ELSE IF raise_at = "print" THEN "failed"
    ELSE "ok"

\* The matched_keywords of the record _process_article returns: the list
\* computed at core.py:319-321 in an ok record, the empty list in a skipped
\* or failed one (core.py:337, 376).
RecordMatchedKeywords(args, page) ==
    LET read == page.raise_at \notin {"nav", "date", "text"}
        matched_keywords == MatchedKeywords(args.keywords, NormalizeText(page.visible_text))
    IN IF ArticleStatus(page.raise_at, IF read THEN matched_keywords ELSE <<>>) = "ok"
       THEN matched_keywords ELSE <<>>

\* core.py:285, 297-303: published_at is None until the date step has run
\* (dated); then the date the page yields, else the date the search recorded.
PublishedAt(dated, detected_date, search_date) ==
    IF ~dated THEN NoDate
    ELSE IF detected_date # NoDate THEN detected_date
    ELSE IF search_date # NoDate THEN search_date
    ELSE NoDate

\* Mutant: falling back to the search date leaves date_unknown set.
DateUnknown_DetectedOnly(dated, detected_date, search_date) ==
    ~(dated /\ detected_date # NoDate)

\* core.py:286, 300, 303: date_unknown starts True and is cleared next to
\* either assignment of published_at.
DateUnknown(dated, detected_date, search_date) ==
    ~(dated /\ (detected_date # NoDate \/ search_date # NoDate))

\* LuxNewsRunner._process_article, given what the browser does.
ProcessArticle(args, page) ==
    LET title == IF page.raise_at # "nav" /\ page.detected_title # NoStr
                 THEN page.detected_title ELSE args.search_title
        dated == page.raise_at \notin {"nav", "date"}
        published_at == PublishedAt(dated, page.detected_date, args.search_date)
        date_unknown == DateUnknown(dated, page.detected_date, args.search_date)
        read == page.raise_at \notin {"nav", "date", "text"}
        normalized_text == NormalizeText(page.visible_text)
        matched_keywords == MatchedKeywords(args.keywords, normalized_text)
        snippets == IF read THEN FallbackSnippets(args.snippets, page.visible_text)
                    ELSE args.snippets
        safe_title == SafeFilename(IF title # NoStr THEN title ELSE UrlChars(args.url),
                                   DefaultMaxLen)
        base == [media |-> args.media_id, url |-> args.url, title |-> title,
                 published_at |-> published_at, date_unknown |-> date_unknown,
                 snippets |-> snippets]
        outcome == ArticleStatus(page.raise_at, IF read THEN matched_keywords ELSE <<>>)
    IN IF outcome = "failed"
       THEN base @@ [matched_keywords |-> RecordMatchedKeywords(args, page),
                     per_article_pdf_path |-> NoPath,
                     status |-> "failed",
                     errors |-> FailedErrors(ExcMessage(page.raise_at),
                                             FormatErrorArtifacts(args.url, page.capture))]
       ELSE IF outcome = "skipped"
       THEN base @@ [matched_keywords |-> RecordMatchedKeywords(args, page),
                     per_article_pdf_path |-> NoPath,
                     status |-> "skipped",
                     errors |-> << <<"No keyword match found in visible text.">> >>]
       ELSE base @@ [matched_keywords |-> RecordMatchedKeywords(args, page),
                     per_article_pdf_path |-> PdfPath(args.media_id, safe_title),
                     status |-> "ok", errors |-> <<>>]

\* The step that actually raises while the article is processed: print_to_pdf
\* is reached only by an article with a match.
RaisedStep(args, page) ==
    IF page.raise_at = "print"
       /\ MatchedKeywords(args.keywords, NormalizeText(page.visible_text)) = <<>>
    THEN "none" ELSE page.raise_at

NoRecord == [status |-> "none"]
NoPage == [raise_at |-> "none"]

ArticleInit ==
    /\ a_pc = "call"
    /\ a_args \in [media_id : {"rtl.lu"}, url : ArticleUrls, keywords : KeywordLists,
                   snippets : {<<>>, << <<"s">> >>},
                   search_title : SearchTitles, search_date : {NoDate, 0}]
    /\ a_page = NoPage
    /\ a_record = NoRecord

ArticleIdle ==
    /\ a_pc = "idle"
    /\ a_args = <<>>
    /\ a_page = NoPage
    /\ a_record = NoRecord

\* One call of _process_article.
ProcessArticleCall ==
    /\ a_pc = "call"
    /\ \E page \in ArticlePages :
         /\ a_page' = page
         /\ IF RaisedStep(a_args, page) # "none" /\ ~CaptureContained(page.capture)
            THEN /\ a_pc' = "raised"
                 /\ UNCHANGED a_record
            ELSE /\ a_pc' = "ret"
                 /\ a_record' = ProcessArticle(a_args, page)
    /\ UNCHANGED a_args

\* ------------------------------------------------------ the date of an article

\* _extract_date, core.py:386-393
MetaKeys == <<"article:published_time", "og:pubdate", "pubdate", "date",
              "publish_date", "dc.date">>

\* The elements of a page _extract_date can look at: for the k-th meta key
\* the first meta tag with property=key and the first with name=key, then
\* the first and the second time element of the document.
DateSlots == ((1..Len(MetaKeys)) \X {"property", "name"})
                 \cup {<<Len(MetaKeys) + 1, "time">>, <<Len(MetaKeys) + 2, "time">>}

\* What a slot holds: no such element; an element without content (no
\* content attribute, or neither a datetime attribute nor text); a text
\* parse_date makes nothing of; or a date.
NoTag == 0 - 3
NoContent == 0 - 4
Garbage == 0 - 5
\* The date an element in the slot carries: a different instant per slot.
SlotDate(slot) ==
    IF slot[2] = "property" THEN 2 * slot[1] - 1
    ELSE IF slot[2] = "name" THEN 2 * slot[1]
    ELSE 2 * Len(MetaKeys) + (slot[1] - Len(MetaKeys))

\* The page whose elements are those of present, with the given contents.
DatePage(present, content) ==
    [slot \in DateSlots |->
        IF slot \notin present THEN NoTag
        ELSE IF content[slot] = "empty" THEN NoContent
        ELSE IF content[slot] = "garbage" THEN Garbage
        ELSE SlotDate(slot)]

\* utils.parse_date: None for a text dateutil raises ValueError on.
ParseDate(text) == IF text >= 0 THEN text ELSE NoDate

\* core.py:395-397  soup.find("meta", property=key) or soup.find("meta", name=key)
MetaTag(page, k) ==
    IF page[<<k, "property">>] # NoTag THEN page[<<k, "property">>] ELSE page[<<k, "name">>]

\* core.py:394-401: the loop over meta_keys from the k-th key on.
RECURSIVE ExtractMetaDate(_, _)
ExtractMetaDate(page, k) ==
    IF k > Len(MetaKeys) THEN NoDate
    ELSE LET tag == MetaTag(page, k)
             parsed == IF tag # NoTag /\ tag # NoContent THEN ParseDate(tag) ELSE NoDate
         IN IF parsed # NoDate THEN parsed ELSE ExtractMetaDate(page, k + 1)

\* Mutant: the time element is looked at before the meta tags.
ExtractDate_TimeFirst(page) ==
    LET time_tag == page[<<Len(MetaKeys) + 1, "time">>]
    IN IF time_tag # NoTag /\ ParseDate(time_tag) # NoDate THEN ParseDate(time_tag)
       ELSE ExtractMetaDate(page, 1)

\* LuxNewsRunner._extract_date
ExtractDate(page) ==
    LET meta == ExtractMetaDate(page, 1)
        time_tag == page[<<Len(MetaKeys) + 1, "time">>]
    IN IF meta # NoDate THEN meta
       ELSE IF time_tag # NoTag THEN ParseDate(time_tag)
       ELSE NoDate

DateInit ==
    /\ d_pc = "call"
    /\ \E present \in {tags \in SUBSET DateSlots : Cardinality(tags) <= MaxDateTags} :
         \E content \in [present -> {"empty", "garbage", "date"}] :
           d_page = DatePage(present, content)
    /\ d_search_date \in {NoDate, 0}
    /\ d_detected = NoDate
    /\ d_published_at = NoDate

DateIdle ==
    /\ d_pc = "idle"
    /\ d_page = <<>>
    /\ d_search_date = NoDate
    /\ d_detected = NoDate
    /\ d_published_at = NoDate

\* core.py:297-303: the date step of _process_article.
DateStep ==
    /\ d_pc = "call"
    /\ d_detected' = ExtractDate(d_page)
    /\ d_published_at' = PublishedAt(TRUE, ExtractDate(d_page), d_search_date)
    /\ d_pc' = "ret"
    /\ UNCHANGED <<d_page, d_search_date>>

\* -------------------------------------------------------------------- the run

\* MEDIA_REGISTRY (registry.py:37): two sources whose domains overlap.
MediaDomain(media_id) == IF media_id = "rtl.lu" THEN <<"r">> ELSE <<"t", ".", "r">>
\* urlparse(url).netloc
UrlHost(url) == IF url = "u1" THEN <<"r">> ELSE <<"t", ".", "r">>

\* BaseMediaScraper._is_allowed_url: the domain is a substring of the host.
IsAllowedUrl(media_id, url) == IsSubstring(MediaDomain(media_id), UrlHost(url))

\* The hits a results page of the source can yield in Spec.
RunHits(media_id) ==
    {[url |-> u, title |-> NoStr, published_at |-> NoDate, snippet |-> NoStr] :
        u \in {v \in ArticleUrls : IsAllowedUrl(media_id, v)}}

\* What the browser does for an article in Spec: a page has no title, or it
\* is a printable page with the title "Ab" and a text that matches.
RunPages ==
    {p \in ArticlePages :
        /\ p.raise_at \in {"none", "nav", "print"}
        /\ \/ p.detected_title = NoStr
           \/ /\ p.detected_title = <<"A", "b">>
              /\ p.raise_at = "none"
              /\ p.visible_text = <<"a'", "b", "c">>
              /\ p.pdf_data = "pdf"
        /\ p.detected_date = NoDate
        /\ p.visible_text \in {<<"x">>, <<"a'", "b", "c">>}
        /\ p.capture = "full"}

MediaLists == {<<"rtl.lu">>, <<"rtl.lu", "today.rtl.lu">>, <<"nope.lu", "rtl.lu">>}
RunKeywordLists == {<<KeywordA>>, <<KeywordA, KeywordB>>}

\* LuxNewsRunner._collect_search_hits, given the list each keyword round returns.
RECURSIVE CollectFrom(_, _, _, _)
CollectFrom(d, keywords, rounds, k) ==
    IF k > Len(keywords) THEN d
    ELSE CollectFrom(MergeKeywordHits(d, rounds[k], keywords[k]), keywords, rounds, k + 1)
CollectSearchHits(keywords, rounds) == DedupSnippets(CollectFrom(<<>>, keywords, rounds, 1))

\* Mutant: a skipped article degrades the source too.
UpdateStatus_AnyNotOk(st, record) ==
    IF record.status # "ok"
    THEN [st EXCEPT !.status = "partial", !.errors = @ \o record.errors]
    ELSE st

\* core.py:114-116
UpdateStatus(st, record) ==
    IF record.status = "failed"
    THEN [st EXCEPT !.status = "partial", !.errors = @ \o record.errors]
    ELSE st

\* Mutant: print_to_pdf sits outside the try block.
Caught_NotPrint(step) == step # "print"

\* core.py:288, 363: `except Exception` covers every step of the try block.
Caught(step) == step \in RaiseSteps

\* The file system, as the set of files with their content: the sequence of
\* its pages for a PDF document, NotPdf for a file PdfReader cannot open.
NotPdf == [pdf |-> FALSE, pages |-> <<>>]
Document(pages) == [pdf |-> TRUE, pages |-> pages]
WriteFile(fs, path, data) == {f \in fs : f.path # path} \cup {[path |-> path, data |-> data]}
Readable(fs, path) == \E f \in fs : f.path = path /\ f.data.pdf
FilePages(fs, path) == (CHOOSE f \in fs : f.path = path).data.pages

\* selenium_utils.print_to_pdf: the bytes Page.printToPDF returned, written
\* to output_path: a document of one page, or nothing.
PrintToPdf(output_path, pdf_data) ==
    IF pdf_data = "pdf" THEN Document(<< <<output_path, 1>> >>) ELSE NotPdf

\* Mutant: the documents are written out last first.
MergedPages_LastFirst(fs, pdf_paths) ==
    Flatten([i \in 1..Len(pdf_paths) |-> FilePages(fs, pdf_paths[Len(pdf_paths) + 1 - i])])

\* pdf_utils.merge_pdfs, lines 11-14: every page of every input, in order.
MergedPages(fs, pdf_paths) ==
    Flatten([i \in 1..Len(pdf_paths) |-> FilePages(fs, pdf_paths[i])])

NoStatus == [media |-> "none", status |-> "none", errors |-> <<>>]

RunInit ==
    /\ pc = "start"
    /\ config \in [medias : MediaLists, keywords : RunKeywordLists, selenium : BOOLEAN]
    /\ m = 1
    /\ driver = "none"
    /\ records = <<>>
    /\ media_statuses = <<>>
    /\ article_pdf_paths = <<>>
    /\ results = <<>>
    /\ n = 1
    /\ status = NoStatus
    /\ files = {}
    /\ pending = "none"
    /\ raised_by = "none"
    /\ quits = 0
    /\ used_after_quit = FALSE
    /\ outcomes = <<>>
    /\ expected = 0
    /\ last_raise = "none"
    /\ trace = <<>>
    /\ notified = <<>>

RunIdle ==
    /\ pc = "idle"
    /\ config = [medias |-> <<>>, keywords |-> <<>>, selenium |-> FALSE]
    /\ m = 1
    /\ driver = "none"
    /\ records = <<>>
    /\ media_statuses = <<>>
    /\ article_pdf_paths = <<>>
    /\ results = <<>>
    /\ n = 1
    /\ status = NoStatus
    /\ files = {}
    /\ pending = "none"
    /\ raised_by = "none"
    /\ quits = 0
    /\ used_after_quit = FALSE
    /\ outcomes = <<>>
    /\ expected = 0
    /\ last_raise = "none"
    /\ trace = <<>>
    /\ notified = <<>>

\* core.py:58: create_driver returns the driver, or raises out of run_job.
CreateDriver ==
    /\ pc = "start"
    /\ \/ /\ driver' = "open"
          /\ pc' = "media"
          /\ UNCHANGED raised_by
       \/ /\ pc' = "raised"
          /\ raised_by' = "create_driver"
          /\ UNCHANGED driver
    /\ UNCHANGED <<config, m, records, media_statuses, article_pdf_paths, results, n,
                   status, files, pending, quits, used_after_quit, outcomes,
                   expected, last_raise, trace, notified>>

\* Mutant: _get_scraper builds a scraper for any id.
KnownMedia_Any(media_id) == TRUE

\* LuxNewsRunner._get_scraper: MEDIA_REGISTRY.get(media_id) is present.
KnownMedia(media_id) == media_id \in MediaIds

\* core.py:77-79: the status recorded for an id _get_scraper rejects.
UnknownMediaStatus(fresh, media_id) ==
    [fresh EXCEPT !.status = "failed", !.errors = << <<"Unknown media", media_id>> >>]

\* Mutant: a failed search only degrades the source.
SearchFailedStatus_Partial(fresh, media_id) ==
    [fresh EXCEPT !.status = "partial", !.errors = << <<"Search failed for", media_id>> >>]

\* core.py:91-92: the status recorded when _collect_search_hits raises.
SearchFailedStatus(fresh, media_id) ==
    [fresh EXCEPT !.status = "failed", !.errors = << <<"Search failed for", media_id>> >>]

\* The payloads of _notify (core.py:73, 80, 94, 120-127), with the number of
\* requests made before the call.
MediaStartEvent(media_id, index, at) ==
    [event |-> "media_start", media |-> media_id, index |-> index, at |-> at]
MediaErrorEvent(media_id, at) ==
    [event |-> "media_error", media |-> media_id, at |-> at]

\* Mutant: the event carries the status the source started with.
MediaDoneEvent_Fresh(st, at) ==
    [event |-> "media_done", media |-> st.media, status |-> "ok", errors |-> <<>>, at |-> at]

MediaDoneEvent(st, at) ==
    [event |-> "media_done", media |-> st.media, status |-> st.status,
     errors |-> st.errors, at |-> at]

\* The keyword rounds _collect_search_hits starts when it gets to keyword k.
SearchTrace(media_id, k) == [j \in 1..k |-> <<"search", media_id, j>>]

\* core.py:72-95: one media of the for loop, up to its article loop: the
\* status starts ok; an unknown id or a raising search records it as failed
\* and continues with the next media. The search raises in the round of
\* some keyword k, after the rounds of the keywords before k have returned
\* and been merged into the local dict, which is lost with the exception.
MediaBegin ==
    /\ pc = "media"
    /\ m <= Len(config.medias)
    /\ LET media_id == config.medias[m]
           fresh == [media |-> media_id, status |-> "ok", errors |-> <<>>]
       IN \/ /\ ~KnownMedia(media_id)
             /\ media_statuses' = Append(media_statuses, UnknownMediaStatus(fresh, media_id))
             /\ outcomes' = Append(outcomes, [unknown |-> TRUE, search_raised |-> FALSE,
                                              discarded |-> 0,
                                              first |-> Len(records) + 1, last |-> Len(records)])
             /\ notified' = notified \o <<MediaStartEvent(media_id, m, Len(trace)),
                                          MediaErrorEvent(media_id, Len(trace))>>
             /\ m' = m + 1
             /\ UNCHANGED <<pc, results, n, status, expected, used_after_quit, trace>>
          \/ /\ KnownMedia(media_id)
             /\ used_after_quit' = (used_after_quit \/ (config.selenium /\ driver # "open"))
             /\ \/ \E k \in 1..Len(config.keywords) :
                     \E earlier \in [1..(k - 1) -> SeqsUpTo(RunHits(media_id), MaxRunRoundHits)] :
                       /\ media_statuses' = Append(media_statuses,
                                                   SearchFailedStatus(fresh, media_id))
                       /\ outcomes' = Append(outcomes,
                              [unknown |-> FALSE, search_raised |-> TRUE,
                               discarded |-> Len(CollectFrom(<<>>, SubSeq(config.keywords, 1, k - 1),
                                                             earlier, 1)),
                               first |-> Len(records) + 1, last |-> Len(records)])
                       /\ trace' = trace \o SearchTrace(media_id, k)
                       /\ notified' = notified \o <<MediaStartEvent(media_id, m, Len(trace)),
                                                    MediaErrorEvent(media_id, Len(trace'))>>
                       /\ m' = m + 1
                       /\ UNCHANGED <<pc, results, n, status, expected>>
                \/ \E rounds \in [1..Len(config.keywords) ->
                                     SeqsUpTo(RunHits(media_id), MaxRunRoundHits)] :
                     /\ results' = CollectSearchHits(config.keywords, rounds)
                     /\ expected' = expected + Len(results')
                     /\ trace' = trace \o SearchTrace(media_id, Len(config.keywords))
                     /\ notified' = Append(notified, MediaStartEvent(media_id, m, Len(trace)))
                     /\ n' = 1
                     /\ status' = fresh
                     /\ pc' = "article"
                     /\ UNCHANGED <<m, media_statuses, outcomes>>
    /\ UNCHANGED <<config, driver, records, article_pdf_paths, files, pending, raised_by,
                   quits, last_raise>>

\* core.py:98-110: the arguments run_job hands to _process_article for a
\* candidate: the configured keywords, not the ones that found the URL.
ArticleArgs(media_id, keywords, payload) ==
    [media_id |-> media_id, url |-> payload.url, keywords |-> keywords,
     snippets |-> payload.snippets, search_title |-> payload.title,
     search_date |-> payload.published_at]

\* core.py:97-117: one candidate of `for url, payload in results.items()`.
ProcessNext ==
    /\ pc = "article"
    /\ n <= Len(results)
    /\ \E page \in RunPages :
         LET payload == results[n]
             args == ArticleArgs(config.medias[m], config.keywords, payload)
             step == RaisedStep(args, page)
             record == ProcessArticle(args, page)
         IN /\ last_raise' = step
            /\ trace' = IF step # "none" /\ ~Caught(step)
                         THEN Append(trace, <<"get", args.media_id, args.url>>)
                         ELSE trace \o << <<"get", args.media_id, args.url>>,
                                          <<"sleep", args.media_id, args.url>> >>
            /\ used_after_quit' = (used_after_quit \/ driver # "open")
            /\ IF step # "none" /\ ~Caught(step)
               THEN /\ pending' = "article"
                    /\ pc' = "finally"
                    /\ UNCHANGED <<records, article_pdf_paths, status, n, files>>
               ELSE /\ records' = Append(records, record)
                    /\ article_pdf_paths' =
                         IF record.status = "ok" /\ record.per_article_pdf_path # NoPath
                         THEN Append(article_pdf_paths, record.per_article_pdf_path)
                         ELSE article_pdf_paths
                    /\ files' = IF record.status = "ok"
                                THEN WriteFile(files, record.per_article_pdf_path,
                                               PrintToPdf(record.per_article_pdf_path,
                                                          page.pdf_data))
                                ELSE files
                    /\ status' = UpdateStatus(status, record)
                    /\ n' = n + 1
                    /\ UNCHANGED <<pc, pending>>
    /\ UNCHANGED <<config, m, driver, media_statuses, results, raised_by, quits,
                   outcomes, expected, notified>>

\* core.py:119-127: the candidates are exhausted; record the media's status.
MediaEnd ==
    /\ pc = "article"
    /\ n > Len(results)
    /\ media_statuses' = Append(media_statuses, status)
    /\ outcomes' = Append(outcomes, [unknown |-> FALSE, search_raised |-> FALSE,
                                     discarded |-> 0,
                                     first |-> Len(records) - Len(results) + 1,
                                     last |-> Len(records)])
    /\ notified' = Append(notified, MediaDoneEvent(status, Len(trace)))
    /\ m' = m + 1
    /\ pc' = "media"
    /\ UNCHANGED <<config, driver, records, article_pdf_paths, results, n, status, files,
                   pending, raised_by, quits, used_after_quit, expected, last_raise, trace>>

\* The for loop over the medias ends normally.
LoopEnd ==
    /\ pc = "media"
    /\ m > Len(config.medias)
    /\ pc' = "finally"
    /\ UNCHANGED <<config, m, driver, records, media_statuses, article_pdf_paths, results,
                   n, status, files, pending, raised_by, quits, used_after_quit,
                   outcomes, expected, last_raise, trace, notified>>

\* Mutant: driver.quit() follows the loop instead of sitting in a finally
\* clause, so an exception leaves run_job without it.
Interrupt_NoFinally ==
    /\ pc \in {"media", "article"}
    /\ pending' = "interrupt"
    /\ raised_by' = "interrupt"
    /\ pc' = "raised"
    /\ UNCHANGED <<config, m, driver, records, media_statuses, article_pdf_paths, results,
                   n, status, files, quits, used_after_quit, outcomes,
                   expected, last_raise, trace, notified>>

\* core.py:70, 128: a BaseException no handler of the loop catches
\* (KeyboardInterrupt during a search or an article) leaves the try block
\* through its finally clause.
Interrupt ==
    /\ pc \in {"media", "article"}
    /\ pending' = "interrupt"
    /\ pc' = "finally"
    /\ UNCHANGED <<config, m, driver, records, media_statuses, article_pdf_paths, results,
                   n, status, files, raised_by, quits, used_after_quit, outcomes,
                   expected, last_raise, trace, notified>>

\* core.py:128-129: finally: driver.quit(); a pending exception then
\* continues to the caller.
Quit ==
    /\ pc = "finally"
    /\ driver' = "quit"
    /\ quits' = quits + 1
    /\ IF pending # "none"
       THEN /\ pc' = "raised"
            /\ raised_by' = pending
       ELSE /\ pc' = "summary"
            /\ UNCHANGED raised_by
    /\ UNCHANGED <<config, m, records, media_statuses, article_pdf_paths, results, n,
                   status, files, pending, used_after_quit, outcomes, expected, last_raise, trace, notified>>

\* core.py:131-159: build_run_summary_pdf writes summary.pdf or raises.
BuildSummary ==
    /\ pc = "summary"
    /\ \/ /\ \E k \in 1..MaxSummaryPages :
                files' = WriteFile(files, <<"summary">>,
                                  Document([j \in 1..k |-> <<"summary", j>>]))
          /\ pc' = "merge"
          /\ UNCHANGED raised_by
       \/ /\ pc' = "raised"
          /\ raised_by' = "summary"
          /\ UNCHANGED files
    /\ UNCHANGED <<config, m, driver, records, media_statuses, article_pdf_paths, results,
                   n, status, pending, quits, used_after_quit, outcomes, expected,
                   last_raise, trace, notified>>

\* pdf_utils.merge_pdfs: PdfReader raises on a file that is no PDF document.
MergeRaises(fs, pdf_paths) == \E i \in 1..Len(pdf_paths) : ~Readable(fs, pdf_paths[i])

\* core.py:161: merge_pdfs([summary_pdf] + article_pdf_paths, merged_pdf).
MergePdfs ==
    /\ pc = "merge"
    /\ IF MergeRaises(files, << <<"summary">> >> \o article_pdf_paths)
       THEN /\ pc' = "raised"
            /\ raised_by' = "merge"
            /\ UNCHANGED files
       ELSE /\ files' = WriteFile(files, <<"merged">>,
                                   Document(MergedPages(files, << <<"summary">> >>
                                                                   \o article_pdf_paths)))
            /\ pc' = "json"
            /\ UNCHANGED raised_by
    /\ UNCHANGED <<config, m, driver, records, media_statuses, article_pdf_paths, results,
                   n, status, pending, quits, used_after_quit, outcomes, expected,
                   last_raise, trace, notified>>

\* core.py:162-173: dump_json writes matches.json or raises; then return.
DumpJson ==
    /\ pc = "json"
    /\ \/ /\ pc' = "returned"
          /\ UNCHANGED raised_by
       \/ /\ pc' = "raised"
          /\ raised_by' = "json"
    /\ UNCHANGED <<config, m, driver, records, media_statuses, article_pdf_paths, results,
                   n, status, files, pending, quits, used_after_quit, outcomes,
                   expected, last_raise, trace, notified>>

\* ---------------------------------------------- one search page over requests

\* What requests.get followed by raise_for_status does: it returns a
\* response, or raises a requests.RequestException.
RequestFailures == {"ConnectionError", "Timeout", "HTTPError"}
ResponseTexts == {<<"h", "1">>, <<"h", "2">>}

RECURSIVE Pow2(_)
Pow2(k) == IF k = 0 THEN 1 ELSE 2 * Pow2(k - 1)

\* Mutant: the delay is the same after every failure.
Backoff_Constant(attempt) == 2

\* base.py:44  time.sleep(2**attempt)
Backoff(attempt) == Pow2(attempt)

FetchInit ==
    /\ q_pc = "try"
    /\ q_url \in PageUrls
    /\ q_attempt = 1
    /\ q_outcomes = <<>>
    /\ q_slept = <<>>
    /\ q_html = NoStr
    /\ q_status = NoStatus

FetchIdle ==
    /\ q_pc = "idle"
    /\ q_url = 0
    /\ q_attempt = 1
    /\ q_outcomes = <<>>
    /\ q_slept = <<>>
    /\ q_html = NoStr
    /\ q_status = NoStatus

\* base.py:37-45: one iteration of `for attempt in range(1, 4)`; after the
\* last one the loop ends and RuntimeError is raised.
FetchAttempt ==
    /\ q_pc = "try"
    /\ q_attempt <= MaxAttempts
    /\ \/ \E text \in ResponseTexts :
             /\ q_outcomes' = Append(q_outcomes, "ok")
             /\ q_html' = text
             /\ q_pc' = "returned"
             /\ UNCHANGED <<q_attempt, q_slept>>
       \/ \E exc \in RequestFailures :
             /\ q_outcomes' = Append(q_outcomes, exc)
             /\ q_slept' = Append(q_slept, Backoff(q_attempt))
             /\ q_attempt' = q_attempt + 1
             /\ q_pc' = IF q_attempt = MaxAttempts THEN "raised" ELSE "try"
             /\ UNCHANGED q_html
    /\ UNCHANGED <<q_url, q_status>>

\* core.py:90-95: the RuntimeError passes through search and
\* _collect_search_hits, which have no handler, and is caught by run_job,
\* which records the source as failed and continues with the next one.
FetchErrorCaught ==
    /\ q_pc = "raised"
    /\ \E media_id \in MediaIds :
         q_status' = SearchFailedStatus([media |-> media_id, status |-> "ok",
                                         errors |-> <<>>], media_id)
    /\ q_pc' = "source_failed"
    /\ UNCHANGED <<q_url, q_attempt, q_outcomes, q_slept, q_html>>

\* ----------------------------------------------------------- specifications

FilterNext == FilterCall /\ UNCHANGED <<roundVars, collectVars, articleVars, normVars, dateVars, fetchVars, runVars>>
InitFilter == FilterInit /\ RoundIdle /\ CollectIdle /\ ArticleIdle /\ NormIdle /\ RunIdle /\ DateIdle /\ FetchIdle
SpecFilter == InitFilter /\ [][FilterNext]_vars

RoundNext ==
    \/ SearchEntry /\ UNCHANGED <<filterVars, collectVars, articleVars, normVars, dateVars, fetchVars, runVars>>
    \/ SearchPage /\ UNCHANGED <<filterVars, collectVars, articleVars, normVars, dateVars, fetchVars, runVars>>
    \/ SeleniumSearchPage /\ UNCHANGED <<filterVars, collectVars, articleVars, normVars, dateVars, fetchVars, runVars>>
    \/ SearchExhausted /\ UNCHANGED <<filterVars, collectVars, articleVars, normVars, dateVars, fetchVars, runVars>>
    \/ AfterRound /\ UNCHANGED <<filterVars, collectVars, articleVars, normVars, dateVars, fetchVars, runVars>>
InitRound == RoundInit /\ FilterIdle /\ CollectIdle /\ ArticleIdle /\ NormIdle /\ RunIdle /\ DateIdle /\ FetchIdle
SpecRound == InitRound /\ [][RoundNext]_vars

CollectNext ==
    \/ CollectKeyword /\ UNCHANGED <<filterVars, roundVars, articleVars, normVars, dateVars, fetchVars, runVars>>
    \/ CollectRaise /\ UNCHANGED <<filterVars, roundVars, articleVars, normVars, dateVars, fetchVars, runVars>>
    \/ CollectReturn /\ UNCHANGED <<filterVars, roundVars, articleVars, normVars, dateVars, fetchVars, runVars>>
InitCollect == CollectInit /\ FilterIdle /\ RoundIdle /\ ArticleIdle /\ NormIdle /\ RunIdle /\ DateIdle /\ FetchIdle
SpecCollect == InitCollect /\ [][CollectNext]_vars

ArticleNext == ProcessArticleCall /\ UNCHANGED <<filterVars, roundVars, collectVars, normVars, dateVars, fetchVars, runVars>>
InitArticle == ArticleInit /\ FilterIdle /\ RoundIdle /\ CollectIdle /\ NormIdle /\ RunIdle /\ DateIdle /\ FetchIdle
SpecArticle == InitArticle /\ [][ArticleNext]_vars

NormalizeNext ==
    NormalizeCall /\ UNCHANGED <<filterVars, roundVars, collectVars, articleVars, dateVars, fetchVars, runVars>>
InitNormalize == NormInit /\ FilterIdle /\ RoundIdle /\ CollectIdle /\ ArticleIdle /\ RunIdle /\ DateIdle /\ FetchIdle
SpecNormalize == InitNormalize /\ [][NormalizeNext]_vars

DateNext ==
    DateStep /\ UNCHANGED <<filterVars, roundVars, collectVars, articleVars, normVars, fetchVars, runVars>>
InitDate ==
    DateInit /\ FilterIdle /\ RoundIdle /\ CollectIdle /\ ArticleIdle /\ NormIdle /\ RunIdle
        /\ FetchIdle
SpecDate == InitDate /\ [][DateNext]_vars

FetchNext ==
    \/ FetchAttempt /\ UNCHANGED <<filterVars, roundVars, collectVars, articleVars, normVars,
                                   dateVars, runVars>>
    \/ FetchErrorCaught /\ UNCHANGED <<filterVars, roundVars, collectVars, articleVars,
                                       normVars, dateVars, runVars>>
InitFetch ==
    FetchInit /\ FilterIdle /\ RoundIdle /\ CollectIdle /\ ArticleIdle /\ NormIdle /\ DateIdle
        /\ RunIdle
SpecFetch == InitFetch /\ [][FetchNext]_vars

EquivNext ==
    \/ SearchEntry /\ UNCHANGED <<filterVars, collectVars, articleVars, normVars, dateVars, fetchVars, runVars>>
    \/ SearchPage /\ UNCHANGED <<filterVars, collectVars, articleVars, normVars, dateVars, fetchVars, runVars>>
    \/ SearchAgainWithSelenium /\ UNCHANGED <<filterVars, collectVars, articleVars, normVars, dateVars, fetchVars, runVars>>
    \/ SeleniumSearchPage /\ UNCHANGED <<filterVars, collectVars, articleVars, normVars, dateVars, fetchVars, runVars>>
    \/ SearchExhausted /\ UNCHANGED <<filterVars, collectVars, articleVars, normVars, dateVars, fetchVars, runVars>>
InitEquiv ==
    EquivInit /\ FilterIdle /\ CollectIdle /\ ArticleIdle /\ NormIdle /\ RunIdle /\ DateIdle
        /\ FetchIdle
SpecEquiv == InitEquiv /\ [][EquivNext]_vars

Next ==
    \/ CreateDriver /\ UNCHANGED <<filterVars, roundVars, collectVars, articleVars, normVars, dateVars, fetchVars>>
    \/ MediaBegin /\ UNCHANGED <<filterVars, roundVars, collectVars, articleVars, normVars, dateVars, fetchVars>>
    \/ ProcessNext /\ UNCHANGED <<filterVars, roundVars, collectVars, articleVars, normVars, dateVars, fetchVars>>
    \/ MediaEnd /\ UNCHANGED <<filterVars, roundVars, collectVars, articleVars, normVars, dateVars, fetchVars>>
    \/ LoopEnd /\ UNCHANGED <<filterVars, roundVars, collectVars, articleVars, normVars, dateVars, fetchVars>>
    \/ Interrupt /\ UNCHANGED <<filterVars, roundVars, collectVars, articleVars, normVars, dateVars, fetchVars>>
    \/ Quit /\ UNCHANGED <<filterVars, roundVars, collectVars, articleVars, normVars, dateVars, fetchVars>>
    \/ BuildSummary /\ UNCHANGED <<filterVars, roundVars, collectVars, articleVars, normVars, dateVars, fetchVars>>
    \/ MergePdfs /\ UNCHANGED <<filterVars, roundVars, collectVars, articleVars, normVars, dateVars, fetchVars>>
    \/ DumpJson /\ UNCHANGED <<filterVars, roundVars, collectVars, articleVars, normVars, dateVars, fetchVars>>
Init == RunInit /\ FilterIdle /\ RoundIdle /\ CollectIdle /\ ArticleIdle /\ NormIdle /\ DateIdle /\ FetchIdle
Spec == Init /\ [][Next]_vars

\* ------------------------------------------------------------------ claims

Undated(hs) == SelectSeq(hs, LAMBDA h : h.published_at = NoDate)
Dated(hs) == SelectSeq(hs, LAMBDA h : h.published_at # NoDate)

\* The statuses of the records run_job appended for the media whose outcome is o.
OwnStatuses(o) == {records[j].status : j \in o.first..o.last}

\* C7: a recorded MediaStatus is failed exactly when the media id is unknown
\* or the search raised; otherwise partial exactly when one of the source's
\* records is failed; otherwise ok. While the articles of a source are
\* processed its status is partial exactly when a record of the source so far
\* is failed, so a skipped record changes nothing and partial never reverts.
C7_MediaStatus ==
    /\ Len(outcomes) = Len(media_statuses)
    /\ \A i \in 1..Len(media_statuses) :
         LET st == media_statuses[i].status
             o == outcomes[i]
         IN /\ st \in {"ok", "partial", "failed"}
            /\ st = "failed" <=> (o.unknown \/ o.search_raised)
            /\ st # "failed" => (st = "partial" <=> "failed" \in OwnStatuses(o))
    /\ pc = "article" =>
         status.status =
           IF \E j \in (Len(records) - n + 2)..Len(records) : records[j].status = "failed"
           THEN "partial" ELSE "ok"

\* C7 witness: a source recorded as partial whose records hold a skipped one
\* after the failed one, next to a source recorded as failed.
C7_Witness ==
    /\ \E i \in 1..Len(media_statuses) :
         /\ media_statuses[i].status = "partial"
         /\ \E j \in outcomes[i].first..outcomes[i].last :
              /\ records[j].status = "failed"
              /\ j < outcomes[i].last
              /\ records[j + 1].status = "skipped"
    /\ \E i \in 1..Len(media_statuses) : media_statuses[i].status = "failed"

\* C8: an exception raised by a step of an article never leaves
\* _process_article: the call returns a failed record, and the run goes on, so
\* that a loop that ends without an interrupt has produced one record per
\* candidate and one status per configured media.
C8_ArticleExceptionContained ==
    /\ pending # "article"
    /\ last_raise # "none" =>
         /\ records # <<>>
         /\ records[Len(records)].status = "failed"
    /\ pc = "article" => Len(records) + (Len(results) - n + 1) = expected
    /\ (pending = "none" /\ pc \in {"finally", "summary", "merge", "json", "returned"}) =>
         /\ Len(records) = expected
         /\ Len(media_statuses) = Len(config.medias)

\* C8 witness: the loop ended normally although an article failed; the same
\* source and a later source were processed after it.
C8_Witness ==
    /\ pc = "finally"
    /\ pending = "none"
    /\ \E i, j, k \in 1..Len(records) :
         /\ i < j /\ j < k
         /\ records[i].status = "failed"
         /\ records[j].media = records[i].media
         /\ records[k].media # records[i].media

\* C9: once created, the driver is released exactly once on every way out of
\* the media loop, and never used afterwards.
C9_DriverReleasedOnce ==
    /\ quits <= 1
    /\ ~used_after_quit
    /\ (driver = "quit") <=> (quits = 1)
    /\ pc \in {"start", "media", "article", "finally"} => quits = 0
    /\ pc \in {"summary", "merge", "json", "returned"} => quits = 1
    /\ pc = "raised" => (quits = 1 <=> raised_by # "create_driver")

\* C9 witness: an exception left the loop after an article had been processed,
\* and the driver was released.
C9_Witness ==
    /\ pc = "raised"
    /\ raised_by = "interrupt"
    /\ records # <<>>
    /\ quits = 1

\* C10 (as claimed): with the driver created, no failure of a later step
\* reaches the caller.
C10_OnlyDriverCreationIsFatal ==
    pc = "raised" => raised_by \in {"create_driver", "interrupt"}

\* C10: the failure that does reach the caller: merge_pdfs raising on the
\* PDF of a matched article for which printToPDF returned no data.
C10_MergeNeverRaises ==
    ~(pc = "raised" /\ raised_by = "merge")

\* C1: every ArticleRecord _process_article returns has status ok, skipped or
\* failed; ok comes with a PDF path and a non-empty matched_keywords; skipped
\* with no matched keyword, exactly one error and no PDF path; failed with at
\* least one error.
C1_RecordInvariant ==
    a_pc = "ret" =>
      /\ a_record.status \in {"ok", "skipped", "failed"}
      /\ a_record.status = "ok" =>
            /\ a_record.per_article_pdf_path # NoPath
            /\ a_record.matched_keywords # <<>>
      /\ a_record.status = "skipped" =>
            /\ a_record.matched_keywords = <<>>
            /\ Len(a_record.errors) = 1
            /\ a_record.per_article_pdf_path = NoPath
      /\ a_record.status = "failed" => a_record.errors # <<>>

\* C1 witness: print_to_pdf raised on a matching article and the diagnostic
\* capture failed too.
C1_Witness ==
    /\ a_pc = "ret"
    /\ a_record.status = "failed"
    /\ a_page.raise_at = "print"
    /\ a_page.capture = "failed"

\* C1 further witnesses: a matching article, and one without a match whose
\* page would have failed to print.
C1_WitnessOk == a_pc = "ret" /\ a_record.status = "ok"
C1_WitnessSkipped ==
    a_pc = "ret" /\ a_record.status = "skipped" /\ a_page.raise_at = "print"

\* C2: when _collect_search_hits returns, the dict has exactly one entry per
\* URL some keyword round returned, and the entry's keyword set is exactly the
\* set of configured keywords whose round returned that URL.
C2_OneEntryPerUrlWithItsKeywords ==
    c_pc = "done" =>
      /\ \A i, j \in 1..Len(hits_by_url) :
            hits_by_url[i].url = hits_by_url[j].url => i = j
      /\ {hits_by_url[i].url : i \in 1..Len(hits_by_url)}
            = UNION {HitUrls(c_rounds[k]) : k \in 1..Len(c_rounds)}
      /\ \A i \in 1..Len(hits_by_url) :
            hits_by_url[i].keywords
              = {c_keywords[k] : k \in {q \in 1..Len(c_rounds) :
                                          hits_by_url[i].url \in HitUrls(c_rounds[q])}}

\* C2 witness: two keywords; one URL came back for both, the other URL for
\* the second keyword only.
C2_Witness ==
    /\ c_pc = "done"
    /\ Len(hits_by_url) = 2
    /\ Cardinality(hits_by_url[1].keywords) = 2
    /\ Cardinality(hits_by_url[2].keywords) = 1
    /\ Len(c_rounds[2]) = 2

\* C3: one keyword round (either path) fetches at most max_pages + 1 pages,
\* whatever the pages contain: the fetch count, the length of the iterated
\* list and the loop position are all bounded by max_pages + 1, so the for
\* loop ends.
C3_FetchBound ==
    /\ Len(fetched) <= r_cfg.max_pages + 1
    /\ Len(urls) <= r_cfg.max_pages + 1
    /\ pos <= Len(urls) + 1
    /\ Cardinality(pages_seen) = Len(fetched)

\* C3 witness: a round that returned after exactly max_pages + 1 fetches.
C3_Witness ==
    /\ r_pc = "done"
    /\ Len(fetched) = r_cfg.max_pages + 1

\* C3 second witness: a round with a page budget of two that followed a
\* next-page link and was stopped by the budget.
C3_WitnessBudget ==
    /\ r_pc = "done"
    /\ ~r_cfg.paged
    /\ r_cfg.max_pages = 2
    /\ Len(fetched) = 2
    /\ Len(hits) < r_cfg.max_results

\* C4 (as claimed): the list a round accumulates holds each URL at most once.
C4_NoDuplicateUrl ==
    \A i, j \in 1..Len(hits) : hits[i].url = hits[j].url => i = j

\* C5: filter_hits_by_date keeps every undated hit, in the original order.
C5_UndatedKept ==
    f_pc = "ret" => Undated(f_filtered) = Undated(f_hits)

\* C5 witness: the filter returned, an undated hit went in and a dated hit
\* was dropped.
C5_Witness ==
    /\ f_pc = "ret"
    /\ Undated(f_hits) # <<>>
    /\ Len(f_filtered) < Len(f_hits)

\* C6: is_within_last_days(t, w, now) holds exactly when t >= now - w days
\* (equality included), and filter_hits_by_date keeps a dated hit exactly
\* when it holds.
C6_RecentIffAtOrAfterCutoff ==
    f_pc = "ret" =>
      /\ \A i \in 1..Len(f_hits) :
            f_hits[i].published_at # NoDate =>
              (IsWithinLastDays(f_hits[i].published_at, f_last_days, f_now)
                 <=> f_hits[i].published_at >= f_now - f_last_days * DayUnits)
      /\ Dated(f_filtered) =
            SelectSeq(Dated(f_hits),
                      LAMBDA h : h.published_at >= f_now - f_last_days * DayUnits)

\* C6 witness: a hit dated exactly at the cutoff went in and came out.
C6_Witness ==
    /\ f_pc = "ret"
    /\ \E i \in 1..Len(f_hits) :
          /\ f_hits[i].published_at = f_now - f_last_days * DayUnits
          /\ \E j \in 1..Len(f_filtered) : f_filtered[j] = f_hits[i]

\* The media ids the trace shows a keyword round or an article navigation for.
Touched == {trace[j][2] : j \in 1..Len(trace)}
Navigated == {trace[j][2] : j \in {q \in 1..Len(trace) : trace[q][1] = "get"}}

\* C11: a configured media id missing from the registry is recorded as failed
\* with exactly one error; no keyword round is started and no article page
\* is opened for it, no ArticleRecord carries it, and the loop has moved on
\* to the next configured media.
C11_UnknownMediaFailsFast ==
    /\ \A i \in 1..Len(media_statuses) :
         config.medias[i] \notin MediaIds =>
           /\ media_statuses[i].media = config.medias[i]
           /\ media_statuses[i].status = "failed"
           /\ Len(media_statuses[i].errors) = 1
           /\ outcomes[i].first > outcomes[i].last
           /\ config.medias[i] \notin Touched
           /\ \A j \in 1..Len(records) : records[j].media # config.medias[i]
    /\ Touched \subseteq MediaIds
    /\ pc \in {"media", "article"} => m = Len(media_statuses) + 1

\* C11 witness: the first configured id was unknown and recorded as failed,
\* and the source configured after it was searched and produced a record.
C11_Witness ==
    /\ config.medias[1] \notin MediaIds
    /\ Len(media_statuses) >= 1
    /\ media_statuses[1].status = "failed"
    /\ records # <<>>
    /\ records[1].media = config.medias[2]

\* C12: when the search of a source raises, in the round of whichever
\* keyword, the source is recorded as failed, no article page of it is
\* opened and no ArticleRecord carries it, also when earlier keywords had
\* already returned hits; the loop has moved on to the next source.
C12_SearchFailureSkipsSource ==
    /\ \A i \in 1..Len(outcomes) :
         outcomes[i].search_raised =>
           /\ media_statuses[i].media = config.medias[i]
           /\ media_statuses[i].status = "failed"
           /\ outcomes[i].first > outcomes[i].last
           /\ config.medias[i] \notin Navigated
           /\ \A j \in 1..Len(records) : records[j].media # config.medias[i]
    /\ Len(outcomes) = Len(media_statuses)
    /\ pc = "media" => m = Len(outcomes) + 1

\* C12 witness: the search of the first source raised in its second keyword
\* round after the first round had returned hits, and the next source was
\* searched and produced a record.
C12_Witness ==
    /\ Len(outcomes) >= 1
    /\ outcomes[1].search_raised
    /\ outcomes[1].discarded > 0
    /\ <<"search", config.medias[1], 2>> \in {trace[j] : j \in 1..Len(trace)}
    /\ records # <<>>
    /\ records[1].media = config.medias[2]

\* C13 (as claimed): the records of a run hold at most one ArticleRecord per URL.
C13_OneRecordPerUrl ==
    \A i, j \in 1..Len(records) : records[i].url = records[j].url => i = j

\* C13: the run the claim has in mind and the code gets wrong: two sources
\* with overlapping domains both return the same URL.
C13_NoUrlUnderTwoSources ==
    \A i, j \in 1..Len(records) :
        records[i].url = records[j].url => records[i].media = records[j].media

Reverse(xs) == [i \in 1..Len(xs) |-> xs[Len(xs) + 1 - i]]
Range(xs) == {xs[i] : i \in 1..Len(xs)}
Entry(d, url) == d[KeyIndex(d, url)]
\* Article pages that are read to the end: one whose text holds one of the
\* two keywords, one whose text holds both inside a longer word.
ReadPages ==
    {[raise_at |-> "none", detected_title |-> NoStr, detected_date |-> NoDate,
      visible_text |-> text, pdf_data |-> "pdf", capture |-> "full"] :
        text \in {<<" ", "A", "b", "TAB", " ", "x">>, <<"a'", "b", "c">>}}

\* The matched_keywords, as a set, of the record an article of the candidate
\* gets when the browser does what page says.
MatchedSet(keywords, payload, page) ==
    Range(RecordMatchedKeywords(ArticleArgs("rtl.lu", keywords, payload), page))

\* C14: with the search results of each keyword and the article pages fixed,
\* configuring the two keywords in the other order yields the same set of
\* candidate URLs, the same keyword set for every candidate, and the same
\* set of matched keywords in every candidate's record.
C14_KeywordOrderCommutes ==
    (c_pc = "done" /\ Len(c_keywords) = 2 /\ c_keywords[1] # c_keywords[2]) =>
      LET swapped == CollectSearchHits(Reverse(c_keywords), Reverse(c_rounds))
      IN /\ HitUrls(swapped) = HitUrls(hits_by_url)
         /\ \A u \in HitUrls(hits_by_url) :
              /\ Entry(swapped, u).keywords = Entry(hits_by_url, u).keywords
              /\ \A page \in ReadPages :
                   MatchedSet(Reverse(c_keywords), Entry(swapped, u), page)
                     = MatchedSet(c_keywords, Entry(hits_by_url, u), page)

\* C14 witness: two different keywords, one URL returned for both and the
\* other for the second only, so that the other order creates the entries in
\* the other order.
C14_Witness ==
    /\ c_pc = "done"
    /\ Len(c_keywords) = 2
    /\ c_keywords[1] # c_keywords[2]
    /\ Len(hits_by_url) = 2
    /\ Cardinality(hits_by_url[2].keywords) = 2
    /\ CollectSearchHits(Reverse(c_keywords), Reverse(c_rounds))[1].url = hits_by_url[2].url
    /\ \E page \in ReadPages :
         Cardinality(MatchedSet(c_keywords, hits_by_url[2], page)) = 2

\* The snippets the rounds returned for url, in the order they were appended
\* to the candidate's list (core.py:203-204).
RawSnippets(url) ==
    Flatten([k \in 1..Len(c_rounds) |->
               LET sel == SelectSeq(c_rounds[k],
                                    LAMBDA h : h.url = url /\ h.snippet # NoStr)
               IN [j \in 1..Len(sel) |-> sel[j].snippet]])

FirstIndex(xs, x) == CHOOSE i \in 1..Len(xs) : xs[i] = x /\ \A j \in 1..(i - 1) : xs[j] # x

\* C16: the snippets list of every returned candidate is what
\* unique_preserve_order makes of the appended snippets: no snippet twice,
\* every appended snippet present, ordered by first occurrence.
C16_SnippetsDistinctInFirstOccurrenceOrder ==
    c_pc = "done" =>
      \A i \in 1..Len(hits_by_url) :
        LET out == hits_by_url[i].snippets
            raw == RawSnippets(hits_by_url[i].url)
        IN /\ \A p, q \in 1..Len(out) : out[p] = out[q] => p = q
           /\ Range(out) = Range(raw)
           /\ \A p, q \in 1..Len(out) :
                p < q => FirstIndex(raw, out[p]) < FirstIndex(raw, out[q])

\* C16 witness: a URL came back three times, its first snippet again after
\* a different one.
C16_Witness ==
    /\ c_pc = "done"
    /\ \E i \in 1..Len(hits_by_url) :
         LET raw == RawSnippets(hits_by_url[i].url)
         IN /\ Len(raw) = 3
            /\ raw[1] = raw[3]
            /\ raw[1] # raw[2]
            /\ hits_by_url[i].snippets = <<raw[1], raw[2]>>

\* needle occurs in hay at some offset, character by character.
OccursIn(needle, hay) ==
    \E i \in 1..(Len(hay) + 1) :
        \A j \in 1..Len(needle) : i + j - 1 <= Len(hay) /\ hay[i + j - 1] = needle[j]

\* C17: the matched_keywords of an ok or skipped record is the sub-list, in
\* configuration order, of the keywords handed to _process_article whose
\* normalized form occurs anywhere in the normalized visible text; nothing
\* else about the candidate enters.
C17_MatchedKeywordsAreSubstringMatches ==
    (a_pc = "ret" /\ a_record.status \in {"ok", "skipped"}) =>
      a_record.matched_keywords =
        SelectSeq(a_args.keywords,
                  LAMBDA k : OccursIn(NormalizeText(k), NormalizeText(a_page.visible_text)))

\* C17 witness: both keywords occur inside one longer word of an accented
\* text, and the record lists them in configuration order.
C17_Witness ==
    /\ a_pc = "ret"
    /\ a_record.status = "ok"
    /\ a_page.visible_text = <<"a'", "b", "c">>
    /\ a_args.keywords = <<KeywordB, KeywordA>>
    /\ a_record.matched_keywords = <<KeywordB, KeywordA>>

\* The PDF paths of the ok records, in the order the records were appended.
OkPaths ==
    LET ok == SelectSeq(records, LAMBDA r : r.status = "ok")
    IN [i \in 1..Len(ok) |-> ok[i].per_article_pdf_path]

RECURSIVE PageCount(_, _)
PageCount(fs, paths) ==
    IF paths = <<>> THEN 0 ELSE Len(FilePages(fs, Head(paths))) + PageCount(fs, Tail(paths))

\* C18: the list run_job keeps for the merge holds the PDFs of the ok
\* records in processing order; merged.pdf consists of the pages of
\* summary.pdf followed by the pages of those PDFs, each document's pages
\* in its own order, and so has as many pages as the inputs together.
C18_MergedIsSummaryThenOkArticles ==
    /\ article_pdf_paths = OkPaths
    /\ pc \in {"json", "returned"} =>
         LET out == FilePages(files, <<"merged">>)
             summary == FilePages(files, <<"summary">>)
         IN /\ SubSeq(out, 1, Len(summary)) = summary
            /\ Len(out) = Len(summary) + PageCount(files, OkPaths)
            /\ \A i \in 1..Len(OkPaths) :
                 LET before == Len(summary) + PageCount(files, SubSeq(OkPaths, 1, i - 1))
                     doc == FilePages(files, OkPaths[i])
                 IN SubSeq(out, before + 1, before + Len(doc)) = doc

\* C18 witness: a one-page summary and one one-page article gave a two-page
\* merged document.
C18_Witness ==
    /\ pc = "returned"
    /\ Len(FilePages(files, <<"summary">>)) = 1
    /\ Len(OkPaths) = 1
    /\ Len(FilePages(files, <<"merged">>)) = 2

\* C18 second witness: a two-page summary followed by the PDFs of two ok
\* records of different sources, with a record that is not ok between them.
C18_WitnessOrder ==
    /\ pc = "returned"
    /\ Len(FilePages(files, <<"summary">>)) = 2
    /\ Len(OkPaths) = 2
    /\ OkPaths[1][1] # OkPaths[2][1]
    /\ \E i, j, k \in 1..Len(records) :
         /\ i < j /\ j < k
         /\ records[i].status = "ok" /\ records[j].status # "ok" /\ records[k].status = "ok"
    /\ Len(FilePages(files, <<"merged">>)) = 4

RECURSIVE Sum(_)
Sum(ns) == IF ns = <<>> THEN 0 ELSE Head(ns) + Sum(Tail(ns))

\* C19: a round (either path) goes on to another page only after a page
\* that contributed a new hit: a page with no new hit ends the round there,
\* by the first of the loop's exits, whatever max_results, the seeded page
\* URLs and the page's next link are.
C19_NoPageAfterOneWithoutNewHits ==
    /\ \A i \in 1..Len(contributed) :
         contributed[i] = 0 =>
           /\ i = Len(contributed)
           /\ i = Len(fetched)
           /\ r_pc \in {"done", "left"}
           /\ stop_reason = "no_new_hits"
    /\ r_pc = "done" => pos <= Len(urls) + 1

\* C19 witness: with a {page} template and two pages seeded, the first page
\* listed only an old hit; the round ended with a seeded URL left and fewer
\* hits than max_results.
C19_Witness ==
    /\ r_pc = "done"
    /\ r_cfg.paged
    /\ Len(urls) = 2
    /\ Len(fetched) = 1
    /\ contributed = <<0>>
    /\ Len(hits) < r_cfg.max_results

\* C19 second witness: without a {page} template, the second page listed
\* only the URL already seen; the round ended by the first exit although
\* the page budget was used up as well.
C19_WitnessSeen ==
    /\ r_pc = "done"
    /\ ~r_cfg.paged
    /\ r_cfg.max_pages = 2
    /\ contributed = <<1, 0>>
    /\ stop_reason = "no_new_hits"
    /\ Len(hits) < r_cfg.max_results

\* C20: a round (either path) goes on to another page only while it holds
\* fewer than max_results hits; the hits of the page that reached the limit
\* are all kept, so the list holds every new hit of every page parsed.
C20_NoPageOnceMaxResultsReached ==
    /\ (r_pc = "loop" /\ contributed # <<>>) => Len(hits) < r_cfg.max_results
    /\ stop_reason = "max_results" =>
         /\ r_pc \in {"done", "left"}
         /\ Len(hits) >= r_cfg.max_results
         /\ contributed[Len(contributed)] > 0
    /\ Len(hits) = Sum(contributed)

\* C20 witness: the first of two seeded pages listed two different URLs with
\* max_results at one; both hits were kept and the second page was not fetched.
C20_Witness ==
    /\ r_pc = "done"
    /\ stop_reason = "max_results"
    /\ r_cfg.paged
    /\ Len(urls) = 2
    /\ Len(fetched) = 1
    /\ r_cfg.max_results = 1
    /\ Len(hits) = 2
    /\ hits[1].url # hits[2].url

\* The letter a character stands for, whatever its case and accent.
BaseLetter(ch) ==
    IF ch \in {"a", "A", "a'", "A'"} THEN "a"
    ELSE IF ch \in {"SIGMA", "sigma"} THEN "sigma"
    ELSE ch

\* The words of a text, split at whitespace, without marks, case and accents.
RECURSIVE SplitWords(_, _)
SplitWords(text, word) ==
    LET done == IF word = <<>> THEN <<>> ELSE <<word>>
    IN IF text = <<>> THEN done
       ELSE IF Head(text) \in Whitespace THEN done \o SplitWords(Tail(text), <<>>)
       ELSE IF Head(text) = "'" THEN SplitWords(Tail(text), word)
       ELSE SplitWords(Tail(text), Append(word, BaseLetter(Head(text))))

\* Two texts that differ only in letter case, diacritics and whitespace.
SameButCaseAccentsSpace(x, y) == SplitWords(x, <<>>) = SplitWords(y, <<>>)

\* C15 (as claimed): normalize_text is idempotent, and two texts that differ
\* only in letter case, diacritics or whitespace normalize to the same value.
C15_NormalizeIdempotentAndInsensitive ==
    t_pc = "ret" =>
      /\ t_twice = t_once
      /\ SameButCaseAccentsSpace(t_text, t_other) => t_other_once = t_once

\* C15, the half that holds: normalize_text is idempotent.
C15_NormalizeIdempotent ==
    t_pc = "ret" => t_twice = t_once

\* C15, what holds of the other half: texts without a capital sigma that
\* differ only in case, diacritics or whitespace normalize to the same value.
C15_InsensitiveWithoutCapitalSigma ==
    (/\ t_pc = "ret"
     /\ "SIGMA" \notin Range(t_text) \cup Range(t_other)
     /\ SameButCaseAccentsSpace(t_text, t_other)) => t_other_once = t_once

\* C15: reached with an accented capital, a tab and surrounding blanks on
\* one side and the plain small letter on the other.
C15_InsensitiveCase ==
    /\ t_pc = "ret"
    /\ t_text = <<"TAB", "a'", " ">>
    /\ t_other = <<"A">>
    /\ t_once = t_other_once

\* C21: a keyword round fetches no results-page URL twice; in the round of a
\* template without {page}, every page after the first was fetched while
\* fewer than max_pages pages had been visited and is the URL
\* detect_next_page returned on the page before, a URL not visited until
\* then; and a detected next URL that is absent or already visited ends the
\* round there.
C21_NoPageTwiceAndNextPageRule ==
    /\ \A i, j \in 1..Len(fetched) : i # j => fetched[i] # fetched[j]
    /\ (r_pc # "idle" /\ ~r_cfg.paged) =>
         /\ \A k \in 2..Len(fetched) :
              /\ k - 1 < r_cfg.max_pages
              /\ detected[k - 1] = fetched[k]
              /\ \A j \in 1..(k - 1) : fetched[j] # detected[k - 1]
         /\ \A k \in 1..Len(detected) :
              (/\ detected[k] # NotCalled
               /\ (detected[k] = NoUrl \/ \E j \in 1..k : fetched[j] = detected[k]))
                => /\ Len(fetched) = k
                   /\ r_pc \in {"done", "left"}
                   /\ stop_reason = "no_next_page"
         /\ stop_reason = "no_next_page" =>
              LET last == detected[Len(detected)]
              IN last = NoUrl \/ \E j \in 1..Len(fetched) : fetched[j] = last

\* C21 witness: a template without {page}; the first page named a next page,
\* which was fetched.
C21_Witness ==
    /\ ~r_cfg.paged
    /\ Len(fetched) = 2
    /\ detected # <<>>
    /\ detected[1] = fetched[2]

\* C21: the round ended on a next link that points back to the page itself.
C21_WitnessVisited ==
    /\ ~r_cfg.paged
    /\ stop_reason = "no_next_page"
    /\ detected = <<0>>
    /\ fetched = <<0>>

\* C21: the round ended on a page without a next link.
C21_WitnessAbsent ==
    /\ ~r_cfg.paged
    /\ r_cfg.selenium
    /\ stop_reason = "no_next_page"
    /\ detected = <<NoUrl>>

Loads == {"page", "next_page", "article"}

\* C22: a delay separates any two consecutive page loads: the search pages
\* of one keyword round, the last page of a round and the page its caller
\* loads next (the first page of the next keyword, or the first article).
C22_DelayBetweenLoads ==
    \A i \in 1..(Len(pace) - 1) : (pace[i] \in Loads) => pace[i + 1] = "sleep"

\* C22, the search pages of one round: a delay separates two of them.
C22_DelayWithinRound ==
    \A i \in 1..(Len(pace) - 1) :
        (pace[i] = "page" /\ pace[i + 1] \in Loads) => pace[i + 1] # "page"

\* C22: the round fetched two pages with a delay between them.
C22_WitnessWithinRound ==
    /\ Len(pace) >= 3
    /\ pace[1] = "page" /\ pace[2] = "sleep" /\ pace[3] = "page"

\* C22, a round that ran out of URLs: its last page is followed by a delay,
\* a round left by break: it is not.
C22_DelayAfterRoundIffExhausted ==
    (r_pc \in {"done", "left"} /\ fetched # <<>>) =>
      LET last == IF r_pc = "done" THEN pace[Len(pace)] ELSE pace[Len(pace) - 1]
      IN (last = "sleep") <=> (stop_reason = "exhausted")

\* C22, the articles: every article page load is followed by a delay before
\* anything else is loaded.
C22_DelayAfterEachArticle ==
    \A i \in 1..Len(trace) :
        trace[i][1] = "get" =>
          /\ i < Len(trace)
          /\ trace[i + 1] = <<"sleep", trace[i][2], trace[i][3]>>

\* C22: two articles of one source were loaded.
C22_WitnessArticles ==
    \E i \in 1..(Len(trace) - 2) :
        /\ trace[i][1] = "get"
        /\ trace[i + 2][1] = "get"
        /\ trace[i + 2][2] = trace[i][2]

\* C23: the call of _process_article always returns; the first entry of the
\* errors of a failed record is the message of the exception the failing
\* step raised, whatever became of the diagnostic capture; a capture that
\* failed adds one entry after it and a refused screenshot only leaves the
\* screenshot entry out.
C23_OriginalErrorFirst ==
    /\ a_pc \in {"idle", "call", "ret"}
    /\ (a_pc = "ret" /\ a_record.status = "failed") =>
         /\ RaisedStep(a_args, a_page) \in RaiseSteps
         /\ a_record.errors # <<>>
         /\ a_record.errors[1] = ExcMessage(RaisedStep(a_args, a_page))
         /\ a_page.capture = "failed" =>
              a_record.errors = <<ExcMessage(RaisedStep(a_args, a_page)),
                                  <<"Artifact capture failed">> >>
         /\ a_page.capture = "no_screenshot" =>
              a_record.errors = <<ExcMessage(RaisedStep(a_args, a_page)),
                                  <<"URL", a_args.url>>, <<"HTML">> >>
    /\ (a_pc = "ret" /\ RaisedStep(a_args, a_page) # "none") => a_record.status = "failed"

\* C23 witness: print_to_pdf raised and the capture of the diagnostics failed.
C23_Witness ==
    /\ a_pc = "ret"
    /\ a_record.status = "failed"
    /\ a_page.raise_at = "print"
    /\ a_page.capture = "failed"

\* C23: the screenshot was refused after a failed navigation.
C23_WitnessNoScreenshot ==
    /\ a_pc = "ret"
    /\ a_record.status = "failed"
    /\ a_page.raise_at = "nav"
    /\ a_page.capture = "no_screenshot"

\* C24: in the record _process_article returns, whatever its status and
\* whichever step raised, date_unknown is true exactly when published_at is
\* absent.
C24_DateUnknownIffNoDate ==
    a_pc = "ret" => (a_record.date_unknown <=> a_record.published_at = NoDate)

\* C24 witness: the page had no date and the date of the search was used, in
\* a record that failed afterwards.
C24_Witness ==
    /\ a_pc = "ret"
    /\ a_record.status = "failed"
    /\ a_page.detected_date = NoDate
    /\ a_record.published_at = a_args.search_date
    /\ a_record.published_at # NoDate
    /\ ~a_record.date_unknown

\* C24: the date step itself raised, so the date of the search was not used.
C24_WitnessRaisedBeforeDate ==
    /\ a_pc = "ret"
    /\ a_page.raise_at = "date"
    /\ a_args.search_date # NoDate
    /\ a_record.published_at = NoDate
    /\ a_record.date_unknown

\* The date sources of a page in the order of their priority: the six meta
\* keys, then the first time element.
DateSources(page) ==
    [k \in 1..(Len(MetaKeys) + 1) |->
        IF k <= Len(MetaKeys) THEN MetaTag(page, k) ELSE page[<<Len(MetaKeys) + 1, "time">>]]

\* C25: published_at is the date of the first source, in the order of the
\* six meta keys followed by the first time element, that holds a parsable
\* date; a missing, empty or unparsable source passes on to the next one; the
\* date of the search is recorded exactly when no source of the page holds a
\* parsable date.
C25_PageDateFirstInKeyOrder ==
    d_pc = "ret" =>
      LET src == DateSources(d_page)
          parsable == {k \in 1..Len(src) : src[k] >= 0}
      IN IF parsable # {}
         THEN LET first == CHOOSE k \in parsable : \A j \in parsable : k <= j
              IN d_published_at = src[first] /\ d_detected = src[first]
         ELSE d_published_at = d_search_date /\ d_detected = NoDate

\* C25 witness: the first key present is unparsable, a later key holds a
\* date, the time element holds another, and the search recorded a third.
C25_Witness ==
    /\ d_pc = "ret"
    /\ d_page[<<1, "property">>] = Garbage
    /\ d_page[<<4, "name">>] = SlotDate(<<4, "name">>)
    /\ d_page[<<Len(MetaKeys) + 1, "time">>] = SlotDate(<<Len(MetaKeys) + 1, "time">>)
    /\ d_search_date = 0
    /\ d_published_at = SlotDate(<<4, "name">>)

\* C25: no source of the page is parsable and the date of the search is used.
C25_WitnessSearchDate ==
    /\ d_pc = "ret"
    /\ d_page[<<2, "property">>] = NoContent
    /\ d_page[<<Len(MetaKeys) + 1, "time">>] = Garbage
    /\ d_page[<<Len(MetaKeys) + 2, "time">>] = SlotDate(<<Len(MetaKeys) + 2, "time">>)
    /\ d_search_date = 0
    /\ d_published_at = 0

\* C26: fetch_search_page makes at most three requests for a URL; a request
\* that succeeds is the last one and its text is returned; the k-th failure
\* is followed by a delay of 2^k seconds (2, 4, 8); the error is raised
\* exactly after three failures in a row, and run_job then records the
\* source as failed and goes on.
C26_ThreeAttemptsWithBackoff ==
    /\ Len(q_outcomes) <= MaxAttempts
    /\ \A i \in 1..(Len(q_outcomes) - 1) : q_outcomes[i] \in RequestFailures
    /\ q_slept = [i \in 1..Len(q_slept) |-> Pow2(i)]
    /\ Len(q_slept) = Cardinality({i \in 1..Len(q_outcomes) : q_outcomes[i] \in RequestFailures})
    /\ q_pc = "returned" <=> (q_outcomes # <<>> /\ q_outcomes[Len(q_outcomes)] = "ok")
    /\ q_pc = "returned" => q_html \in ResponseTexts
    /\ q_pc \in {"raised", "source_failed"} <=>
         (Len(q_outcomes) = MaxAttempts /\ \A i \in 1..MaxAttempts : q_outcomes[i] \in RequestFailures)
    /\ q_pc \in {"raised", "source_failed"} => q_slept = <<2, 4, 8>>
    /\ q_pc = "source_failed" =>
         /\ q_status.status = "failed"
         /\ Len(q_status.errors) = 1

\* C26 witness: two requests failed and the third returned the page.
C26_Witness ==
    /\ q_pc = "returned"
    /\ Len(q_outcomes) = MaxAttempts
    /\ q_slept = <<2, 4>>

\* C26: three requests failed and the source was recorded as failed.
C26_WitnessGiveUp ==
    /\ q_pc = "source_failed"
    /\ q_outcomes = <<"Timeout", "HTTPError", "ConnectionError">>

\* ---------------------------------------------------------------------------
\* Progress events of run_job
\* ---------------------------------------------------------------------------

Events(kind) == {j \in 1..Len(notified) : notified[j].event = kind}

\* C27 (as claimed): every recorded MediaStatus, whatever its status, has a
\* media_done event of its source carrying its status and errors.
C27_MediaDoneForEverySource ==
    \A i \in 1..Len(media_statuses) :
      \E j \in Events("media_done") :
        /\ notified[j].media = media_statuses[i].media
        /\ notified[j].status = media_statuses[i].status
        /\ notified[j].errors = media_statuses[i].errors

\* C27 (start): the sources are started in listed order, one media_start
\* event each, and every request for a source comes after its media_start.
C27_StartBeforeRequests ==
    /\ \A j \in Events("media_start") :
         /\ notified[j].media = config.medias[notified[j].index]
         /\ \A q \in 1..Len(trace) : trace[q][2] = notified[j].media => q > notified[j].at
         /\ \A q \in Events("media_start") : q < j => notified[q].index < notified[j].index
    /\ Touched \subseteq {notified[j].media : j \in Events("media_start")}
    /\ \A i \in 1..Len(media_statuses) :
         \E j \in Events("media_start") : notified[j].index = i

C27_WitnessStart ==
    /\ Cardinality(Events("media_start")) = 2
    /\ \E j \in Events("media_start") : notified[j].index = 2 /\ notified[j].at > 0
    /\ Len(trace) > notified[Len(notified)].at

\* C27 (statuses): exactly one MediaStatus per source whose processing has
\* ended, in listed order; all of them when the loop is left normally.
C27_OneStatusPerSourceInOrder ==
    /\ Len(media_statuses) <= Len(config.medias)
    /\ \A i \in 1..Len(media_statuses) : media_statuses[i].media = config.medias[i]
    /\ pc \in {"media", "article"} => Len(media_statuses) = m - 1
    /\ pc \in {"summary", "merge", "json", "returned"} /\ raised_by = "none" =>
         Len(media_statuses) = Len(config.medias)

C27_WitnessStatuses ==
    /\ pc = "returned"
    /\ Len(media_statuses) = 2
    /\ media_statuses[1].status = "failed"

\* C27 (done): a source that is not failed has exactly one media_done event,
\* emitted after its last request and carrying the recorded status and
\* errors; a failed source has a media_error event and no media_done event.
C27_MediaDoneUnlessFailed ==
    \A i \in 1..Len(media_statuses) :
      LET st == media_statuses[i]
          done == {j \in Events("media_done") : notified[j].media = st.media}
          error == {j \in Events("media_error") : notified[j].media = st.media}
      IN IF st.status = "failed"
         THEN done = {} /\ Cardinality(error) = 1
         ELSE /\ error = {}
              /\ Cardinality(done) = 1
              /\ \A j \in done :
                   /\ notified[j].status = st.status
                   /\ notified[j].errors = st.errors
                   /\ \A q \in 1..Len(trace) : trace[q][2] = st.media => q <= notified[j].at

C27_WitnessDone ==
    \E j \in Events("media_done") : notified[j].status = "partial" /\ notified[j].errors # <<>>

C27_WitnessFailed ==
    /\ Events("media_error") # {}
    /\ Events("media_done") # {}

\* C28 (as claimed): every source recorded as partial has a failed record
\* and a record that is not failed.
C28_PartialOnlyIfMixed ==
    \A i \in 1..Len(media_statuses) :
      media_statuses[i].status = "partial" =>
        /\ "failed" \in OwnStatuses(outcomes[i])
        /\ OwnStatuses(outcomes[i]) # {"failed"}

\* C28 (partial): a source is recorded as partial exactly when its search
\* returned and one of its records is failed, whatever the other records
\* are.
C28_PartialIffSomeFailed ==
    \A i \in 1..Len(media_statuses) :
      LET o == outcomes[i]
      IN media_statuses[i].status = "partial" <=>
           /\ ~o.unknown
           /\ ~o.search_raised
           /\ \E j \in o.first..o.last : records[j].status = "failed"

C28_WitnessAllFailed ==
    \E i \in 1..Len(media_statuses) :
      /\ media_statuses[i].status = "partial"
      /\ OwnStatuses(outcomes[i]) = {"failed"}

C28_WitnessMixed ==
    \E i \in 1..Len(media_statuses) :
      /\ media_statuses[i].status = "partial"
      /\ {"failed", "ok"} \subseteq OwnStatuses(outcomes[i])

\* The positions of the ok records.
OkRecords == {j \in 1..Len(records) : records[j].status = "ok"}

\* C29 (as claimed): two distinct ok records never have the same
\* per_article_pdf_path, every ok record has a file of its own, and the list
\* handed to the merge holds no path twice.
C29_OkRecordsHaveOwnPdf ==
    /\ \A i, j \in OkRecords :
         i # j => records[i].per_article_pdf_path # records[j].per_article_pdf_path
    /\ Cardinality({f \in files : \E j \in OkRecords : f.path = records[j].per_article_pdf_path})
         = Cardinality(OkRecords)
    /\ \A i, j \in 1..Len(article_pdf_paths) :
         i # j => article_pdf_paths[i] # article_pdf_paths[j]

\* C29 (other sources, other names): the path is the media id and the
\* sanitised title or URL, so ok records of one run share a path exactly
\* when they are of one source and their titles (or URLs, without a title)
\* sanitise to one name; every ok record's path is in the merge list and
\* names a file written by the run.
C29_SamePathIffSameSourceAndName ==
    /\ \A i, j \in OkRecords :
         LET name(r) == SafeFilename(IF r.title # NoStr THEN r.title ELSE UrlChars(r.url),
                                     DefaultMaxLen)
         IN records[i].per_article_pdf_path = records[j].per_article_pdf_path
              <=> /\ records[i].media = records[j].media
                  /\ name(records[i]) = name(records[j])
    /\ \A j \in OkRecords :
         /\ \E f \in files : f.path = records[j].per_article_pdf_path
         /\ \E q \in 1..Len(article_pdf_paths) :
              article_pdf_paths[q] = records[j].per_article_pdf_path

C29_WitnessSamePath ==
    \E i, j \in OkRecords :
      /\ i < j
      /\ records[i].url # records[j].url
      /\ records[i].per_article_pdf_path = records[j].per_article_pdf_path
      /\ Cardinality({f \in files : f.path = records[i].per_article_pdf_path}) = 1
      /\ pc = "returned"

C29_WitnessOwnPaths ==
    \E i, j \in OkRecords :
      /\ i < j
      /\ records[i].media = records[j].media
      /\ records[i].per_article_pdf_path # records[j].per_article_pdf_path

\* ---------------------------------------------------------------------------
\* The two search paths
\* ---------------------------------------------------------------------------

\* C30: with the same definition and configuration and a site that serves
\* every URL the same content, _search_with_selenium loads the same page
\* URLs in the same order as search, returns the same hits in the same
\* order and leaves its loop at the same statement.
C30_SearchPathsEquivalent ==
    (first_run # <<>> /\ r_pc = "done") =>
      /\ fetched = first_run[1].fetched
      /\ hits = first_run[1].hits
      /\ stop_reason = first_run[1].stop_reason

\* C30 witness: both paths have loaded two pages of a single-URL template by
\* following the next link, dropped a hit seen before, and returned two hits.
C30_Witness ==
    /\ first_run # <<>>
    /\ r_pc = "done"
    /\ r_cfg.selenium
    /\ ~r_cfg.paged
    /\ Len(fetched) = 2
    /\ Len(first_run[1].fetched) = 2
    /\ Len(hits) = 2
    /\ contributed = <<1, 1>>
    /\ \E e \in web.pages : e[1] = fetched[2] /\ Len(e[2].page_hits) = 2

\* C30 second witness: a {page} template, both paths stopped by max_results
\* on the second page.
C30_WitnessPaged ==
    /\ first_run # <<>>
    /\ r_pc = "done"
    /\ r_cfg.paged
    /\ fetched = <<1, 2>>
    /\ stop_reason = "max_results"
    /\ first_run[1].stop_reason = "max_results"

====
